---- MODULE Spec2Model ----
(***************************************************************************)
(* Damage-to-part matching (FlaskApp/cvmain/test.py, cvmain/main.py) and   *)
(* the repair/replace cost engine (FlaskApp/app7.py).                      *)
(*                                                                         *)
(* Conventions.                                                            *)
(*  - Russian string literals of the source are written in Latin           *)
(*    transliteration ("Ne opredeleno" is the source's 'Не определено').   *)
(*    Upper and lower case are kept apart, as str.lower() and == see them. *)
(*  - A Python float that is a quotient of integers is kept exact, as a    *)
(*    pair <<numerator, denominator>> with a positive denominator, and is  *)
(*    compared by cross-multiplication.                                    *)
(*  - Money and areas are integers; products with the decimal rate         *)
(*    multipliers are computed in tenths / hundredths and rounded as the   *)
(*    code rounds them.                                                    *)
(***************************************************************************)
EXTENDS Integers, Sequences, FiniteSets, TLC

VARIABLES
    pc,              \* position of the modelled call
    \* ---- cvmain/test.py: analyze_car_damage / find_damage_parts
    damage_results,  \* raw detections of the damage model: <<box, class name>>
    part_results,    \* raw detections of the part model:   <<box, class name>>
    damage_boxes,    \* find_damage_parts argument
    damage_labels,   \* find_damage_parts argument
    part_boxes,      \* find_damage_parts argument
    part_labels,     \* find_damage_parts argument
    iou_threshold,   \* find_damage_parts argument (default 0.1)
    results,         \* find_damage_parts local list `results`
    damage_idx,      \* find_damage_parts outer loop index (next damage to visit)
    matches,         \* what analyze_car_damage returns
    \* ---- app7.py: calculate_dent_repair_cost
    dent_args,       \* (damage_area, material, severity, damage_type)
    dent_result,     \* (final_cost, base_material)
    dent_args2,      \* the arguments of a second call, with another area
    dent_result2,    \* what the second call returned
    \* ---- app7.py: calculate_repair_cost
    CAR_PRICES_DF,   \* global price table: None or a sequence of rows
    damage_analysis, \* argument: None or [damages |-> sequence of damage dicts]
    brand,           \* argument
    model,           \* argument
    car_parts,       \* local: the rows find_car_parts returned
    damages_with_costs, \* local list `damages_with_costs`
    cost_idx,        \* how many damages the for-loop has consumed
    cost_return,     \* what calculate_repair_cost returned
    \* ---- app7.py: analyze_damage_endpoint and the page script that shows its answer
    response_data,   \* the JSON answer of POST /analyze-damage
    page,            \* what the page script computed from the answer
    \* ---- cvmain/test.py: calculate_iou called on its own
    iou_args,        \* (box1, box2)
    iou_result,      \* calculate_iou(box1, box2)
    iou_swapped,     \* calculate_iou(box2, box1)
    \* ---- app7.py: calculate_repair_cost called a second time with the same arguments
    called_again,    \* TRUE once calculate_repair_cost has been called a second time
    first_return,    \* what the first of two calls returned
    \* ---- app7.py: find_car_parts, read by read, while other threads reload the table
    df_checked,      \* the CAR_PRICES_DF that `if CAR_PRICES_DF is None` saw
    df_container,    \* the CAR_PRICES_DF that is indexed: CAR_PRICES_DF[...]
    df_brand,        \* the CAR_PRICES_DF whose column 'марка' is compared with brand
    df_model,        \* the CAR_PRICES_DF whose column 'модель' is compared with model
    reloads,         \* how many times another thread has assigned CAR_PRICES_DF
    \* ---- cvmain/test.py: main
    result_data,     \* what main writes to the output file
    \* ---- app7.py: POST /analyze-damage requests and their parsing threads
    PARSING_STATUS,  \* the global dict: in_progress, last_completed, current_task
    request,         \* per request: position, car, wait_for_parsing_completion's locals
    thread           \* per request: the parsing thread start_auto_parsing creates

matchVars == <<damage_results, part_results, damage_boxes, damage_labels,
               part_boxes, part_labels, iou_threshold, results, damage_idx,
               matches>>
dentVars == <<dent_args, dent_result, dent_args2, dent_result2>>
costVars == <<CAR_PRICES_DF, damage_analysis, brand, model, car_parts,
              damages_with_costs, cost_idx, cost_return>>
totalVars == <<response_data, page>>
iouVars == <<iou_args, iou_result, iou_swapped>>
repeatVars == <<called_again, first_return>>
raceVars == <<df_checked, df_container, df_brand, df_model, reloads>>
emitVars == <<result_data>>
parseVars == <<PARSING_STATUS, request, thread>>
extVars == <<repeatVars, raceVars, emitVars, parseVars>>
vars == <<pc, matchVars, dentVars, costVars, totalVars, iouVars, extVars>>

None == "None"

(***************************************************************************)
(* Bounds of the model.                                                    *)
(***************************************************************************)
MaxCoord == 2      \* largest pixel coordinate of a box
MaxParts == 2      \* longest part list
MaxDamages == 2    \* longest damage list
MaxCostDamages == 1 \* longest 'damages' list handed to calculate_repair_cost
MaxTotalDamages == 2 \* longest 'damages' list of an analyze-damage request

Max(a, b) == IF a >= b THEN a ELSE b
Min(a, b) == IF a <= b THEN a ELSE b

\* exact fractions <<n, d>>, d > 0
FracGt(a, b) == a[1] * b[2] > b[1] * a[2]
FracEq(a, b) == a[1] * b[2] = b[1] * a[2]
FracZero == <<0, 1>>

(***************************************************************************)
(* cvmain/test.py                                                          *)
(***************************************************************************)
UnknownPart == "Ne opredeleno"     \* 'Не определено'
UnknownDamage == "Neizvestno"      \* 'Неизвестно'

\* PART_MAPPING.get(yolo_part_name, 'Не определено'); the part classes used here
map_yolo_part_to_russian(yolo_part_name) ==
    CASE yolo_part_name = "front_bumper" -> "Bamper perednij"
      [] yolo_part_name = "front_left_door" -> "Dver perednjaja"
      [] yolo_part_name = "front_right_door" -> "Dver perednjaja"
      [] yolo_part_name = "hood" -> "Kapot"
      [] yolo_part_name = "front_light" -> "Fara perednjaja"
      [] yolo_part_name = "object" -> "Ne opredeleno"
      [] yolo_part_name = "wheel" -> "Koleso"
      [] OTHER -> "Ne opredeleno"

\* str.lower() on the damage class names the model can emit
LowerDamageClass(s) ==
    CASE s = "Dent" -> "dent"
      [] s = "Scratch" -> "scratch"
      [] OTHER -> s

\* DAMAGE_MAPPING.get(damage_type.lower(), damage_type)
map_damage_to_russian(damage_type) ==
    LET k == LowerDamageClass(damage_type) IN
    CASE k = "dent" -> "Vmjatina"
      [] k = "scratch" -> "Carapina"
      [] k = "crack" -> "Treshhina"
      [] k = "tear" -> "Nadryv"
      [] OTHER -> damage_type

\* ... without the test `(area1 + area2 - intersection) > 0`
calculate_iou_Unguarded(box1, box2) ==
    LET x1 == Max(box1[1], box2[1])
        y1 == Max(box1[2], box2[2])
        x2 == Min(box1[3], box2[3])
        y2 == Min(box1[4], box2[4])
        intersection == Max(0, x2 - x1) * Max(0, y2 - y1)
        area1 == (box1[3] - box1[1]) * (box1[4] - box1[2])
        area2 == (box2[3] - box2[1]) * (box2[4] - box2[2])
    IN  <<intersection, area1 + area2 - intersection>>

\* ... with the union taken as area1 + area2
calculate_iou_UnionSum(box1, box2) ==
    LET x1 == Max(box1[1], box2[1])
        y1 == Max(box1[2], box2[2])
        x2 == Min(box1[3], box2[3])
        y2 == Min(box1[4], box2[4])
        intersection == Max(0, x2 - x1) * Max(0, y2 - y1)
        area1 == (box1[3] - box1[1]) * (box1[4] - box1[2])
        area2 == (box2[3] - box2[1]) * (box2[4] - box2[2])
        union == area1 + area2
    IN  IF union > 0 THEN <<intersection, union>> ELSE FracZero

\* ... with area2 taking its height from box1
calculate_iou_Area2Slip(box1, box2) ==
    LET x1 == Max(box1[1], box2[1])
        y1 == Max(box1[2], box2[2])
        x2 == Min(box1[3], box2[3])
        y2 == Min(box1[4], box2[4])
        intersection == Max(0, x2 - x1) * Max(0, y2 - y1)
        area1 == (box1[3] - box1[1]) * (box1[4] - box1[2])
        area2 == (box2[3] - box2[1]) * (box1[4] - box1[2])
        union == area1 + area2 - intersection
    IN  IF union > 0 THEN <<intersection, union>> ELSE FracZero

\* ... without max(0, .) on the sides of the intersection
calculate_iou_Unclamped(box1, box2) ==
    LET x1 == Max(box1[1], box2[1])
        y1 == Max(box1[2], box2[2])
        x2 == Min(box1[3], box2[3])
        y2 == Min(box1[4], box2[4])
        intersection == (x2 - x1) * (y2 - y1)
        area1 == (box1[3] - box1[1]) * (box1[4] - box1[2])
        area2 == (box2[3] - box2[1]) * (box2[4] - box2[2])
        union == area1 + area2 - intersection
    IN  IF union > 0 THEN <<intersection, union>> ELSE FracZero

\* the float intersection / union as the exact fraction <<intersection, union>>
calculate_iou(box1, box2) ==
    LET x1 == Max(box1[1], box2[1])
        y1 == Max(box1[2], box2[2])
        x2 == Min(box1[3], box2[3])
        y2 == Min(box1[4], box2[4])
        intersection == Max(0, x2 - x1) * Max(0, y2 - y1)
        area1 == (box1[3] - box1[1]) * (box1[4] - box1[2])
        area2 == (box2[3] - box2[1]) * (box2[4] - box2[2])
        union == area1 + area2 - intersection
    IN  IF union > 0 THEN <<intersection, union>> ELSE FracZero

\* calculate_iou(box1, box2) called on its own
IouCall ==
    /\ pc = "iou_call"
    /\ iou_result' = calculate_iou(iou_args[1], iou_args[2])
    /\ pc' = "iou_returned"
    /\ UNCHANGED <<iou_args, iou_swapped, matchVars, dentVars, costVars, totalVars, extVars>>

\* then calculate_iou(box2, box1)
IouCallSwapped ==
    /\ pc = "iou_returned"
    /\ iou_swapped' = calculate_iou(iou_args[2], iou_args[1])
    /\ pc' = "iou_returned_swapped"
    /\ UNCHANGED <<iou_args, iou_result, matchVars, dentVars, costVars, totalVars, extVars>>

\* the three locals of one outer-loop iteration, as initialised at its start
BestInit == [best_iou |-> FracZero, best_part_label |-> UnknownPart, best_part_idx |-> -1]

\* `if iou > best_iou and iou > iou_threshold`
TakesOverTieLast(iou, best, threshold) ==
    ~FracGt(best.best_iou, iou) /\ FracGt(iou, threshold)

TakesOver(iou, best, threshold) ==
    FracGt(iou, best.best_iou) /\ FracGt(iou, threshold)

\* body of the inner loop for the (0-based) part index part_idx
ScanPart(best, damage_box, pboxes, plabels, threshold, part_idx) ==
    LET iou == calculate_iou(damage_box, pboxes[part_idx + 1]) IN
    IF TakesOver(iou, best, threshold)
    THEN [best_iou |-> iou,
          best_part_label |-> plabels[part_idx + 1],
          best_part_idx |-> part_idx]
    ELSE best

\* the inner loop `for part_idx, part_box in enumerate(part_boxes)`, from part_idx on
RECURSIVE ScanParts(_, _, _, _, _, _)
ScanParts(best, damage_box, pboxes, plabels, threshold, part_idx) ==
    IF part_idx >= Len(pboxes) THEN best
    ELSE ScanParts(ScanPart(best, damage_box, pboxes, plabels, threshold, part_idx),
                   damage_box, pboxes, plabels, threshold, part_idx + 1)

\* the dict appended for the damage with (0-based) index d_idx
MatchRecord(d_idx, dlabels, best) ==
    [damage_index |-> d_idx,
     damage_type |-> IF d_idx < Len(dlabels) THEN dlabels[d_idx + 1]
                     ELSE UnknownDamage,
     part_name |-> best.best_part_label,
     iou |-> best.best_iou,
     part_index |-> best.best_part_idx]

AppendMatchSkipUnknown(res, rec) ==
    IF rec.part_index = -1 THEN res ELSE Append(res, rec)

\* results.append({...})
AppendMatch(res, rec) == Append(res, rec)

\* one iteration of `for damage_idx, damage_box in enumerate(damage_boxes)`
ForDamage ==
    /\ pc = "find_damage_parts"
    /\ damage_idx < Len(damage_boxes)
    /\ LET best == ScanParts(BestInit, damage_boxes[damage_idx + 1],
                             part_boxes, part_labels, iou_threshold, 0)
       IN  results' = AppendMatch(results, MatchRecord(damage_idx, damage_labels, best))
    /\ damage_idx' = damage_idx + 1
    /\ UNCHANGED <<pc, damage_results, part_results, damage_boxes, damage_labels,
                   part_boxes, part_labels, iou_threshold, matches, dentVars, costVars, totalVars, iouVars, extVars>>

\* `return results`
FindReturn ==
    /\ pc = "find_damage_parts"
    /\ damage_idx = Len(damage_boxes)
    /\ pc' = "find_returned"
    /\ UNCHANGED <<matchVars, dentVars, costVars, totalVars, iouVars, extVars>>

\* analyze_car_damage: the loop over the damage model's detections
DetectDamages ==
    /\ pc = "detect_damages"
    /\ damage_boxes' = [i \in 1..Len(damage_results) |-> damage_results[i][1]]
    /\ damage_labels' = [i \in 1..Len(damage_results) |->
                            map_damage_to_russian(damage_results[i][2])]
    /\ pc' = "detect_parts"
    /\ UNCHANGED <<damage_results, part_results, part_boxes, part_labels,
                   iou_threshold, results, damage_idx, matches, dentVars, costVars, totalVars, iouVars, extVars>>

\* analyze_car_damage: the loop over the part model's detections
DetectParts ==
    /\ pc = "detect_parts"
    /\ part_boxes' = [i \in 1..Len(part_results) |-> part_results[i][1]]
    /\ part_labels' = [i \in 1..Len(part_results) |->
                          map_yolo_part_to_russian(part_results[i][2])]
    /\ pc' = "analyze_branch"
    /\ UNCHANGED <<damage_results, part_results, damage_boxes, damage_labels,
                   iou_threshold, results, damage_idx, matches, dentVars, costVars, totalVars, iouVars, extVars>>

\* `if len(damage_boxes) == 0: ... return [], saved_paths`
NoDamages ==
    /\ pc = "analyze_branch"
    /\ Len(damage_boxes) = 0
    /\ matches' = <<>>
    /\ pc' = "analyzed"
    /\ UNCHANGED <<damage_results, part_results, damage_boxes, damage_labels, part_boxes,
                   part_labels, iou_threshold, results, damage_idx, dentVars, costVars, totalVars, iouVars, extVars>>

\* `if len(part_boxes) == 0: matches = find_damage_parts(...)` (default threshold)
CallFindNoParts ==
    /\ pc = "analyze_branch"
    /\ Len(damage_boxes) # 0
    /\ Len(part_boxes) = 0
    /\ results' = <<>>
    /\ damage_idx' = 0
    /\ pc' = "find_damage_parts"
    /\ UNCHANGED <<damage_results, part_results, damage_boxes, damage_labels, part_boxes,
                   part_labels, iou_threshold, matches, dentVars, costVars, totalVars, iouVars, extVars>>

\* `matches = find_damage_parts(damage_boxes, damage_labels, part_boxes, part_labels)`
CallFind ==
    /\ pc = "analyze_branch"
    /\ Len(damage_boxes) # 0
    /\ Len(part_boxes) # 0
    /\ results' = <<>>
    /\ damage_idx' = 0
    /\ pc' = "find_damage_parts"
    /\ UNCHANGED <<damage_results, part_results, damage_boxes, damage_labels, part_boxes,
                   part_labels, iou_threshold, matches, dentVars, costVars, totalVars, iouVars, extVars>>

\* `return matches, saved_paths`
AnalyzeReturn ==
    /\ pc = "find_returned"
    /\ matches' = results
    /\ pc' = "analyzed"
    /\ UNCHANGED <<damage_results, part_results, damage_boxes, damage_labels, part_boxes,
                   part_labels, iou_threshold, results, damage_idx, dentVars, costVars, totalVars, iouVars, extVars>>

(***************************************************************************)
(* app7.py: strings                                                        *)
(***************************************************************************)
\* str.lower() on the strings of the model
Lower(s) ==
    CASE s = "Aljuminij" -> "aljuminij"
      [] s = "Plastik" -> "plastik"
      [] s = "KARBON" -> "karbon"
      [] s = "Magnij" -> "magnij"
      [] s = "Dver perednjaja" -> "dver perednjaja"
      [] s = "Bamper perednij" -> "bamper perednij"
      [] s = "Kapot" -> "kapot"
      [] s = "Ne opredeleno" -> "ne opredeleno"
      [] OTHER -> s

\* the keywords of the source that occur in s as substrings (s taken as it is,
\* case-sensitively):  'алюмин' aljumin, 'магн' magn, 'сплав' splav,
\* 'композит' kompozit, 'карбон' karbon, 'пластик' plastik, 'полимер' polimer,
\* 'бампер' bamper, 'дверь' dver, 'крыло' krylo, 'фара' fara, 'капот' kapot
KeywordsIn(s) ==
    CASE s = "aljuminij" -> {"aljumin"}
      [] s = "aljuminievyj splav" -> {"aljumin", "splav"}
      [] s = "magnievyj splav" -> {"magn", "splav"}
      [] s = "magnij" -> {"magn"}
      [] s = "splav s karbonom" -> {"splav", "karbon"}
      [] s = "kompozit" -> {"kompozit"}
      [] s = "kompozitnyj plastik" -> {"kompozit", "plastik"}
      [] s = "karbon" -> {"karbon"}
      [] s = "plastik" -> {"plastik"}
      [] s = "polimer" -> {"polimer"}
      [] s = "bamper perednij" -> {"bamper"}
      [] s = "dver perednjaja" -> {"dver"}
      [] s = "dver perednjaja levaja" -> {"dver"}
      [] s = "krylo perednee levoe" -> {"krylo"}
      [] s = "fara perednjaja levaja" -> {"fara"}
      [] s = "kapot" -> {"kapot"}
      [] OTHER -> {}

\* `keyword in s`
Contains(s, keyword) == keyword \in KeywordsIn(s)

(***************************************************************************)
(* app7.py: rate tables                                                    *)
(***************************************************************************)
MIN_DAMAGE_AREA == 50
MAX_DAMAGE_AREA == 200

Light == "legkij"       \* 'легкий'
Medium == "srednij"     \* 'средний'
Heavy == "tjazhelyj"    \* 'тяжелый'
Dent == "vmjatina"      \* 'вмятина'
Scratch == "carapina"   \* 'царапина'
Tear == "razryv"        \* 'разрыв'
Steel == "stal"                 \* 'сталь'
Aluminum == "aljuminij"         \* 'алюминий'
Magnesium == "magnievyj splav"  \* 'магниевый сплав'
Composite == "kompozit"         \* 'композит'
Plastic == "plastik"            \* 'пластик'

KnownSeverities == {Light, Medium, Heavy}

BASE_DENT_REPAIR_RATES ==
    [m \in {Steel, Aluminum, Magnesium, Composite} |->
        CASE m = Steel -> [sv \in KnownSeverities |->
                 CASE sv = Light -> 150 [] sv = Medium -> 250 [] sv = Heavy -> 400]
          [] m = Aluminum -> [sv \in KnownSeverities |->
                 CASE sv = Light -> 200 [] sv = Medium -> 350 [] sv = Heavy -> 550]
          [] m = Magnesium -> [sv \in KnownSeverities |->
                 CASE sv = Light -> 300 [] sv = Medium -> 500 [] sv = Heavy -> 800]
          [] m = Composite -> [sv \in KnownSeverities |->
                 CASE sv = Light -> 400 [] sv = Medium -> 700 [] sv = Heavy -> 1200]]

\* REPAIR_COST_MULTIPLIERS, in tenths
REPAIR_COST_MULTIPLIERS ==
    [t \in {Dent, Scratch, Tear} |->
        CASE t = Dent -> [sv \in KnownSeverities |->
                 CASE sv = Light -> 3 [] sv = Medium -> 5 [] sv = Heavy -> 8]
          [] t = Scratch -> [sv \in KnownSeverities |->
                 CASE sv = Light -> 2 [] sv = Medium -> 4 [] sv = Heavy -> 7]
          [] t = Tear -> [sv \in KnownSeverities |->
                 CASE sv = Light -> 6 [] sv = Medium -> 9 [] sv = Heavy -> 12]]

\* MATERIAL_COMPLEXITY_MULTIPLIERS, in tenths
MATERIAL_COMPLEXITY_MULTIPLIERS ==
    [m \in {Steel, Aluminum, Magnesium, Composite, Plastic} |->
        CASE m = Steel -> 10 [] m = Aluminum -> 14 [] m = Magnesium -> 20
          [] m = Composite -> 25 [] m = Plastic -> 8]

\* math.ceil(a / b) for an integer a and b > 0
CeilDiv(a, b) == -((-a) \div b)

(***************************************************************************)
(* app7.py: calculate_dent_repair_cost                                     *)
(***************************************************************************)
\* the if/elif chain on material_lower
BaseMaterialOfLoweredAlloyFirst(material_lower) ==
    IF Contains(material_lower, "magn") \/ Contains(material_lower, "splav") THEN Magnesium
    ELSE IF Contains(material_lower, "aljumin") THEN Aluminum
    ELSE IF Contains(material_lower, "kompozit") \/ Contains(material_lower, "karbon")
         THEN Composite
    ELSE IF Contains(material_lower, "plastik") \/ Contains(material_lower, "polimer")
         THEN Plastic
    ELSE Steel

BaseMaterialOfLowered(material_lower) ==
    IF Contains(material_lower, "aljumin") THEN Aluminum
    ELSE IF Contains(material_lower, "magn") \/ Contains(material_lower, "splav")
         THEN Magnesium
    ELSE IF Contains(material_lower, "kompozit") \/ Contains(material_lower, "karbon")
         THEN Composite
    ELSE IF Contains(material_lower, "plastik") \/ Contains(material_lower, "polimer")
         THEN Plastic
    ELSE Steel

BaseMaterial(material) == BaseMaterialOfLowered(Lower(material))

\* the rate for plastic (no table lookup)
PlasticRateFlat(severity, damage_type) == 150

PlasticRate(severity, damage_type) ==
    IF damage_type = Dent
    THEN (IF severity = Heavy THEN 200 ELSE 100)
    ELSE 150

\* REPAIR_COST_MULTIPLIERS.get(damage_type, {}).get(severity, 1.0), in tenths
DamageMultiplierAlwaysDefault(damage_type, severity) == 10

DamageMultiplier(damage_type, severity) ==
    IF damage_type \in DOMAIN REPAIR_COST_MULTIPLIERS
       /\ severity \in DOMAIN REPAIR_COST_MULTIPLIERS[damage_type]
    THEN REPAIR_COST_MULTIPLIERS[damage_type][severity]
    ELSE 10

\* math.ceil(final_cost / 100) * 100 for final_cost = n / 100
RoundUpHundredthsTruncating(n) == (n \div 10000) * 100

RoundUpHundredthsNegated(n) == ((-n) \div 10000) * 100

RoundUpHundredths(n) == CeilDiv(n, 10000) * 100

\* returns <<final_cost, base_material>>.  BASE_DENT_REPAIR_RATES[...][severity] raises
\* KeyError for a severity outside the table; the except clause returns (0, 'сталь').
calculate_dent_repair_cost(damage_area, material, severity, damage_type) ==
    LET base_material == BaseMaterial(material)
        raises == base_material # Plastic /\ severity \notin KnownSeverities
        base_rate == IF base_material = Plastic
                     THEN PlasticRate(severity, damage_type)
                     ELSE BASE_DENT_REPAIR_RATES[base_material][severity]
        material_multiplier == MATERIAL_COMPLEXITY_MULTIPLIERS[base_material]
        damage_multiplier == DamageMultiplier(damage_type, severity)
    IN  IF raises THEN <<0, Steel>>
        ELSE <<RoundUpHundredths(damage_area * base_rate * material_multiplier
                                 * damage_multiplier),
               base_material>>

DentCall ==
    /\ pc = "dent_call"
    /\ dent_result' = calculate_dent_repair_cost(dent_args.damage_area, dent_args.material,
                                                 dent_args.severity, dent_args.damage_type)
    /\ pc' = "dent_returned"
    /\ UNCHANGED <<dent_args, dent_args2, dent_result2, matchVars, costVars, totalVars,
                   iouVars, extVars>>

\* a second call that differs from the first in the area only
DentCallOtherArea(damage_area) ==
    /\ pc = "dent_returned"
    /\ damage_area # dent_args.damage_area
    /\ dent_args2' = [dent_args EXCEPT !.damage_area = damage_area]
    /\ dent_result2' = calculate_dent_repair_cost(damage_area, dent_args.material,
                                                  dent_args.severity, dent_args.damage_type)
    /\ pc' = "dent_returned_twice"
    /\ UNCHANGED <<dent_args, dent_result, matchVars, costVars, totalVars, iouVars, extVars>>

(***************************************************************************)
(* app7.py: calculate_repair_cost                                          *)
(***************************************************************************)
\* CAR_PRICES_DF is None, or a DataFrame whose rows are records
\* [marka, model, detal, material, cena]  ('марка', 'модель', 'деталь',
\* 'материал детали', 'цена')
NoTable == [is_none |-> TRUE, rows |-> <<>>]
Table(rows) == [is_none |-> FALSE, rows |-> rows]

\* damage_analysis is None, a dict without 'damages', or a dict with 'damages'
NoAnalysis == [kind |-> "none", damages |-> <<>>]
AnalysisWithoutDamages == [kind |-> "no_damages_key", damages |-> <<>>]
Analysis(damages) == [kind |-> "dict", damages |-> damages]

\* dict.get(key, default)
Get(d, key, default) == IF key \in DOMAIN d THEN d[key] ELSE default

find_car_parts_BrandOnly(df, b, m) ==
    IF df.is_none THEN <<>>
    ELSE SelectSeq(df.rows, LAMBDA r : r.marka = b)

find_car_parts(df, b, m) ==
    IF df.is_none THEN <<>>
    ELSE SelectSeq(df.rows, LAMBDA r : r.marka = b /\ r.model = m)

\* car_parts[car_parts['деталь'] == damaged_part]
PartDataUnfiltered(parts, damaged_part) == parts

PartData(parts, damaged_part) == SelectSeq(parts, LAMBDA r : r.detal = damaged_part)

\* max(MIN_DAMAGE_AREA, min(damage_area, MAX_DAMAGE_AREA))
ClampAreaUpperOnly(damage_area) == Min(damage_area, MAX_DAMAGE_AREA)

ClampArea(damage_area) == Max(MIN_DAMAGE_AREA, Min(damage_area, MAX_DAMAGE_AREA))

\* `if repair_cost < replacement_cost * 0.7` ... (both costs are integers)
RecommendNoMargin(repair_cost, replacement_cost) ==
    IF repair_cost < replacement_cost
    THEN [recommendation |-> "remont", savings |-> replacement_cost - repair_cost]
    ELSE [recommendation |-> "zamena", savings |-> 0]

Recommend(repair_cost, replacement_cost) ==
    IF 10 * repair_cost < 7 * replacement_cost
    THEN [recommendation |-> "remont", savings |-> replacement_cost - repair_cost]
    ELSE [recommendation |-> "zamena", savings |-> 0]

\* the cap for heavy damage on magnesium alloy / composite
CapRepairNever(repair_cost, replacement_cost, severity, detected_material) == repair_cost

CapRepair(repair_cost, replacement_cost, severity, detected_material) ==
    IF severity = Heavy /\ detected_material \in {Magnesium, Composite}
    THEN Min(repair_cost, replacement_cost)
    ELSE repair_cost

\* the branch `if not part_data.empty`: the part has a row, the first one is used
CostFromRecord(damaged_part, damage_type, severity, damage_area, row) ==
    LET replacement_cost == row.cena
        part_material == row.material
        dent == calculate_dent_repair_cost(damage_area, part_material, severity, damage_type)
        detected_material == dent[2]
        repair_cost == CapRepair(dent[1], replacement_cost, severity, detected_material)
        rec == Recommend(repair_cost, replacement_cost)
    IN  [part |-> damaged_part,
         material |-> part_material,
         detected_material |-> detected_material,
         damage_type |-> damage_type,
         severity |-> severity,
         damage_area_cm2 |-> damage_area,
         repair_cost |-> repair_cost,
         replacement_cost |-> replacement_cost,
         recommendation |-> rec.recommendation,
         savings |-> rec.savings,
         estimated |-> FALSE]

\* default material by the kind of part ('обвес', 'решетка', 'крыша', 'стекло',
\* 'оптика' occur in no part name of the model)
DefaultMaterial(damaged_part) ==
    LET p == Lower(damaged_part) IN
    IF Contains(p, "bamper") \/ Contains(p, "obves") \/ Contains(p, "reshetka") THEN Plastic
    ELSE IF Contains(p, "kapot") \/ Contains(p, "dver") \/ Contains(p, "krylo")
            \/ Contains(p, "krysha") THEN Steel
    ELSE IF Contains(p, "fara") \/ Contains(p, "steklo") \/ Contains(p, "optika")
         THEN Composite
    ELSE Steel

\* scratch_rates.get(severity, 150)
ScratchRate(severity) ==
    CASE severity = Light -> 80 [] severity = Medium -> 150 [] severity = Heavy -> 300
      [] OTHER -> 150

\* material_multipliers.get(default_material, 1.0), in tenths
ScratchMaterialMultiplierFlat(default_material) == 10

ScratchMaterialMultiplier(default_material) ==
    CASE default_material = Plastic -> 10 [] default_material = Steel -> 12
      [] default_material = Aluminum -> 15 [] default_material = Composite -> 20
      [] OTHER -> 10

\* typical replacement prices by the kind of part, for a scratch without a price row
ScratchReplacementSwapped(damaged_part, repair_cost) ==
    LET p == Lower(damaged_part) IN
    IF Contains(p, "bamper") THEN 15000
    ELSE IF Contains(p, "dver") THEN 25000
    ELSE IF Contains(p, "krylo") THEN 8000
    ELSE IF Contains(p, "fara") THEN 12000
    ELSE Max(repair_cost * 3, 10000)

ScratchReplacement(damaged_part, repair_cost) ==
    LET p == Lower(damaged_part) IN
    IF Contains(p, "bamper") THEN 15000
    ELSE IF Contains(p, "dver") THEN 25000
    ELSE IF Contains(p, "krylo") THEN 12000
    ELSE IF Contains(p, "fara") THEN 8000
    ELSE Max(repair_cost * 3, 10000)

\* math.ceil(x / 100) * 100
CeilHundredIdentity(x) == x

CeilHundred(x) == CeilDiv(x, 100) * 100

\* the else branch: no row for the part
CostEstimated(damaged_part, damage_type, severity, damage_area) ==
    LET default_material == DefaultMaterial(damaged_part)
        \* int(damage_area * base_rate * material_multiplier)
        scratch_repair == (damage_area * ScratchRate(severity)
                           * ScratchMaterialMultiplier(default_material)) \div 10
        dent == calculate_dent_repair_cost(damage_area, default_material, severity,
                                           damage_type)
        repair_raw == IF damage_type = Scratch THEN scratch_repair ELSE dent[1]
        \* int(repair_cost * 2.5) in the non-scratch branch
        replacement_raw == IF damage_type = Scratch
                           THEN ScratchReplacement(damaged_part, scratch_repair)
                           ELSE (dent[1] * 5) \div 2
        repair_cost == CeilHundred(repair_raw)
        replacement_cost == CeilHundred(replacement_raw)
        rec == Recommend(repair_cost, replacement_cost)
    IN  [part |-> damaged_part,
         material |-> "ne opredelen",
         detected_material |-> default_material,
         damage_type |-> damage_type,
         severity |-> severity,
         damage_area_cm2 |-> damage_area,
         repair_cost |-> repair_cost,
         replacement_cost |-> replacement_cost,
         recommendation |-> rec.recommendation,
         savings |-> rec.savings,
         estimated |-> TRUE]

\* the body of `for damage in damage_analysis['damages']`; randint is the value
\* random.randint(10, 100) returned (it is evaluated whether or not it is used)
CostOfDamage(damage, parts, randint) ==
    LET damaged_part == Get(damage, "part", "")
        damage_type == Get(damage, "damage_type", Dent)
        severity == Get(damage, "severity", Medium)
        damage_area == ClampArea(Get(damage, "area_cm2", randint))
        part_data == PartData(parts, damaged_part)
    IN  IF Len(part_data) > 0
        THEN CostFromRecord(damaged_part, damage_type, severity, damage_area, part_data[1])
        ELSE CostEstimated(damaged_part, damage_type, severity, damage_area)

\* values random.randint(10, 100) can return: both ends and one inside the clamp range
RandInts == {10, 77, 100}

\* `if not damage_analysis or 'damages' not in damage_analysis: return []`
CostReturnEmpty ==
    /\ pc = "cost_call"
    /\ damage_analysis.kind # "dict"
    /\ cost_return' = <<>>
    /\ pc' = "cost_returned"
    /\ UNCHANGED <<CAR_PRICES_DF, damage_analysis, brand, model, car_parts,
                   damages_with_costs, cost_idx, matchVars, dentVars, totalVars, iouVars, extVars>>

\* `car_parts = find_car_parts(brand, model); damages_with_costs = []`
CostLookup ==
    /\ pc = "cost_call"
    /\ damage_analysis.kind = "dict"
    /\ car_parts' = find_car_parts(CAR_PRICES_DF, brand, model)
    /\ damages_with_costs' = <<>>
    /\ cost_idx' = 0
    /\ pc' = "cost_loop"
    /\ UNCHANGED <<CAR_PRICES_DF, damage_analysis, brand, model, cost_return,
                   matchVars, dentVars, totalVars, iouVars, extVars>>

\* one iteration of the for-loop
CostDamage ==
    /\ pc = "cost_loop"
    /\ cost_idx < Len(damage_analysis.damages)
    /\ \E randint \in RandInts :
          damages_with_costs' =
              Append(damages_with_costs,
                     CostOfDamage(damage_analysis.damages[cost_idx + 1], car_parts, randint))
    /\ cost_idx' = cost_idx + 1
    /\ UNCHANGED <<pc, CAR_PRICES_DF, damage_analysis, brand, model, car_parts,
                   cost_return, matchVars, dentVars, totalVars, iouVars, extVars>>

\* `return damages_with_costs`
CostReturn ==
    /\ pc = "cost_loop"
    /\ cost_idx = Len(damage_analysis.damages)
    /\ cost_return' = damages_with_costs
    /\ pc' = "cost_returned"
    /\ UNCHANGED <<CAR_PRICES_DF, damage_analysis, brand, model, car_parts,
                   damages_with_costs, cost_idx, matchVars, dentVars, totalVars, iouVars, extVars>>

(***************************************************************************)
(* app7.py: analyze_damage_endpoint, from the call of calculate_repair_cost *)
(* on, and the script of the page that shows the answer                    *)
(***************************************************************************)
NoResponse == [kind |-> "none"]
NoPage == [shown |-> "nothing"]

\* sum(damage[key] for damage in damages_with_costs)
RECURSIVE SumOf(_, _)
SumOf(damages, key) ==
    IF damages = <<>> THEN 0 ELSE damages[1][key] + SumOf(Tail(damages), key)

\* `if not damages_with_costs: return jsonify({"success": False, ...})`
EndpointNoCosts ==
    /\ pc = "cost_returned"
    /\ cost_return = <<>>
    /\ response_data' = [kind |-> "json", success |-> FALSE]
    /\ pc' = "responded"
    /\ UNCHANGED <<page, matchVars, dentVars, costVars, iouVars, extVars>>

\* the totals and `return jsonify(response_data)`
EndpointTotals ==
    /\ pc = "cost_returned"
    /\ cost_return # <<>>
    /\ response_data' = [kind |-> "json",
                         success |-> TRUE,
                         damages |-> cost_return,
                         total_repair_cost |-> SumOf(cost_return, "repair_cost"),
                         total_replacement_cost |-> SumOf(cost_return, "replacement_cost")]
    /\ pc' = "responded"
    /\ UNCHANGED <<page, matchVars, dentVars, costVars, iouVars, extVars>>

\* data.damages.forEach(damage => { total += damage[key]; ... }), total starting at 0
RECURSIVE ForEachAdd(_, _, _)
ForEachAdd(total, damages, key) ==
    IF damages = <<>> THEN total
    ELSE ForEachAdd(total + damages[1][key], Tail(damages), key)

\* totalRepairCost < totalReplacementCost ? 'ремонт' : 'замена'
FinalRecommendationWithMargin(totalRepairCost, totalReplacementCost) ==
    IF 10 * totalRepairCost < 7 * totalReplacementCost THEN "remont" ELSE "zamena"

\* ... with the operands the other way round
FinalRecommendationSwapped(totalRepairCost, totalReplacementCost) ==
    IF totalReplacementCost < totalRepairCost THEN "remont" ELSE "zamena"

FinalRecommendation(totalRepairCost, totalReplacementCost) ==
    IF totalRepairCost < totalReplacementCost THEN "remont" ELSE "zamena"

\* the page script, `if (data.success) { ... }`
ShowResult ==
    /\ pc = "responded"
    /\ response_data.success
    /\ page' = IF Len(response_data.damages) > 0
               THEN LET totalRepairCost ==
                            ForEachAdd(0, response_data.damages, "repair_cost")
                        totalReplacementCost ==
                            ForEachAdd(0, response_data.damages, "replacement_cost")
                    IN  [shown |-> "totals",
                         totalRepairCost |-> totalRepairCost,
                         totalReplacementCost |-> totalReplacementCost,
                         totalSavings |-> totalReplacementCost - totalRepairCost,
                         finalRecommendation |->
                             FinalRecommendation(totalRepairCost, totalReplacementCost)]
               ELSE [shown |-> "no damages"]
    /\ pc' = "shown"
    /\ UNCHANGED <<response_data, matchVars, dentVars, costVars, iouVars, extVars>>

\* the page script, `else { ... data.error ... }`
ShowError ==
    /\ pc = "responded"
    /\ ~response_data.success
    /\ page' = [shown |-> "error"]
    /\ pc' = "shown"
    /\ UNCHANGED <<response_data, matchVars, dentVars, costVars, iouVars, extVars>>

(***************************************************************************)
(* Input domains of the matcher.                                           *)
(***************************************************************************)
SeqUpTo(S, n) == UNION {[1..k -> S] : k \in 0..n}

\* part boxes: well-formed, degenerate (x1 = x2) and malformed (x2 < x1) ones
PartBoxSet == {<<x1, 0, x2, 2>> : x1 \in 0..1, x2 \in 0..MaxCoord} \cup {<<0, 0, 2, 1>>}
\* damage boxes: two well-formed ones and one malformed in x and y
DamageBoxSet == {<<0, 0, 2, 2>>, <<0, 0, 1, 1>>, <<2, 2, 0, 0>>}
\* -0.1, 0.1 (the default) and 0.5
Thresholds == {<<-1, 10>>, <<1, 10>>, <<1, 2>>}
DefaultThreshold == <<1, 10>>
LabelAt(i) == IF i % 2 = 1 THEN "Kapot" ELSE "Dver perednjaja"

DetBoxSet == {<<0, 0, 2, 2>>, <<0, 0, 1, 2>>}
DamageClasses == {"dent", "Scratch"}
PartClasses == {"hood", "object", "front_left_door"}

TotalsIdle == /\ response_data = NoResponse
              /\ page = NoPage
IouIdle == /\ iou_args = <<>>
           /\ iou_result = FracZero
           /\ iou_swapped = FracZero
DentIdle == /\ dent_args = None
            /\ dent_result = None
            /\ dent_args2 = None
            /\ dent_result2 = None
CostIdle == /\ CAR_PRICES_DF = NoTable
            /\ damage_analysis = NoAnalysis
            /\ brand = None
            /\ model = None
            /\ car_parts = <<>>
            /\ damages_with_costs = <<>>
            /\ cost_idx = 0
            /\ cost_return = <<>>
MatchIdle == /\ damage_results = <<>>
             /\ part_results = <<>>
             /\ damage_boxes = <<>>
             /\ damage_labels = <<>>
             /\ part_boxes = <<>>
             /\ part_labels = <<>>
             /\ iou_threshold = DefaultThreshold
             /\ results = <<>>
             /\ damage_idx = 0
             /\ matches = <<>>
RepeatIdle == /\ called_again = FALSE
              /\ first_return = <<>>
RaceIdle == /\ df_checked = NoTable
            /\ df_container = NoTable
            /\ df_brand = NoTable
            /\ df_model = NoTable
            /\ reloads = 0
EmitIdle == result_data = [kind |-> "none"]
\* PARSING_STATUS as the module defines it
InitialStatus == [in_progress |-> FALSE,
                  last_completed |-> [kind |-> "none"],
                  current_task |-> None]
ParseIdle == /\ PARSING_STATUS = InitialStatus
             /\ request = <<>>
             /\ thread = <<>>
ExtIdle == /\ RepeatIdle
           /\ RaceIdle
           /\ EmitIdle
           /\ ParseIdle

\* every box with coordinates in 0..MaxCoord, well-formed or not, and the two boxes
\* (0,0,10,10) and (20,20,30,30)
IouBoxes == {<<x1, y1, x2, y2>> : x1 \in 0..MaxCoord, y1 \in 0..MaxCoord,
                                 x2 \in 0..MaxCoord, y2 \in 0..MaxCoord}
            \cup {<<0, 0, 10, 10>>, <<20, 20, 30, 30>>}

\* calculate_iou called directly, with any two boxes
InitIou ==
    /\ pc = "iou_call"
    /\ iou_args \in IouBoxes \X IouBoxes
    /\ iou_result = FracZero
    /\ iou_swapped = FracZero
    /\ damage_results = <<>>
    /\ part_results = <<>>
    /\ damage_boxes = <<>>
    /\ damage_labels = <<>>
    /\ part_boxes = <<>>
    /\ part_labels = <<>>
    /\ iou_threshold = DefaultThreshold
    /\ results = <<>>
    /\ damage_idx = 0
    /\ matches = <<>>
    /\ DentIdle
    /\ CostIdle
    /\ TotalsIdle
    /\ ExtIdle

NextIou == IouCall \/ IouCallSwapped
SpecIou == InitIou /\ [][NextIou]_vars

\* find_damage_parts called directly, with any arguments
InitMatch ==
    /\ pc = "find_damage_parts"
    /\ damage_results = <<>>
    /\ part_results = <<>>
    /\ damage_boxes \in SeqUpTo(DamageBoxSet, MaxDamages)
    /\ damage_labels = [i \in 1..Len(damage_boxes) |-> "Vmjatina"]
    /\ part_boxes \in SeqUpTo(PartBoxSet, MaxParts)
    /\ part_labels = [i \in 1..Len(part_boxes) |-> LabelAt(i)]
    /\ iou_threshold \in Thresholds
    /\ results = <<>>
    /\ damage_idx = 0
    /\ matches = <<>>
    /\ DentIdle
    /\ CostIdle
    /\ TotalsIdle
    /\ ExtIdle
    /\ IouIdle

NextMatch == ForDamage \/ FindReturn
SpecMatch == InitMatch /\ [][NextMatch]_vars

\* analyze_car_damage on the detections of one image
InitDetect ==
    /\ pc = "detect_damages"
    /\ damage_results \in SeqUpTo(DetBoxSet \X DamageClasses, MaxDamages)
    /\ part_results \in SeqUpTo(DetBoxSet \X PartClasses, MaxParts)
    /\ damage_boxes = <<>>
    /\ damage_labels = <<>>
    /\ part_boxes = <<>>
    /\ part_labels = <<>>
    /\ iou_threshold = DefaultThreshold
    /\ results = <<>>
    /\ damage_idx = 0
    /\ matches = <<>>
    /\ DentIdle
    /\ CostIdle
    /\ TotalsIdle
    /\ ExtIdle
    /\ IouIdle

NextDetect ==
    \/ DetectDamages
    \/ DetectParts
    \/ NoDamages
    \/ CallFindNoParts
    \/ CallFind
    \/ ForDamage
    \/ FindReturn
    \/ AnalyzeReturn
SpecDetect == InitDetect /\ [][NextDetect]_vars

(***************************************************************************)
(* Input domains of the cost engine.                                       *)
(***************************************************************************)
\* 'сталь', 'Алюминий', 'алюминиевый сплав', 'магниевый сплав', 'Магний',
\* 'сплав с карбоном', 'композит', 'КАРБОН', 'Пластик', 'полимер',
\* 'композитный пластик', '' and 'nan'
MaterialStrings == {"stal", "Aljuminij", "aljuminievyj splav", "magnievyj splav",
                    "Magnij", "splav s karbonom",
                    "kompozit", "KARBON", "Plastik", "polimer", "kompozitnyj plastik",
                    "", "nan"}
\* the three severities of the tables and 'незначительный' (map_severity's 'minor')
SeverityStrings == KnownSeverities \cup {"neznachitelnyj"}
\* the three damage types of the table, 'трещина' and the detector's 'Вмятина'
DamageTypeStrings == {Dent, Scratch, Tear, "treshhina", "Vmjatina"}
DentAreas == {0, 1, 7, 45, 50, 51, 120, 200}

\* calculate_dent_repair_cost called directly
InitDent ==
    /\ pc = "dent_call"
    /\ dent_args \in [damage_area : DentAreas, material : MaterialStrings,
                      severity : SeverityStrings, damage_type : DamageTypeStrings]
    /\ dent_result = None
    /\ dent_args2 = None
    /\ dent_result2 = None
    /\ damage_results = <<>>
    /\ part_results = <<>>
    /\ damage_boxes = <<>>
    /\ damage_labels = <<>>
    /\ part_boxes = <<>>
    /\ part_labels = <<>>
    /\ iou_threshold = DefaultThreshold
    /\ results = <<>>
    /\ damage_idx = 0
    /\ matches = <<>>
    /\ CostIdle
    /\ TotalsIdle
    /\ ExtIdle
    /\ IouIdle

NextDent == DentCall \/ \E damage_area \in DentAreas : DentCallOtherArea(damage_area)
SpecDent == InitDent /\ [][NextDent]_vars

Row(b, m, part, material, price) ==
    [marka |-> b, model |-> m, detal |-> part, material |-> material, cena |-> price]

\* price tables: not loaded, empty, and two loaded ones.  4321 is a price that is no
\* multiple of 100 and lies below the repair cost of heavy damage; 0 is what a missing
\* price is coerced to; the second table has two rows for one key.
PriceTables ==
    {NoTable,
     Table(<<>>),
     Table(<<Row("Lada", "Vesta", "kapot", "stal", 9000),
             Row("Toyota", "Camry", "bamper perednij", "Plastik", 15000),
             Row("Toyota", "Camry", "fara perednjaja levaja", "kompozit", 4321),
             Row("Toyota", "Camry", "krylo perednee levoe", "magnievyj splav", 900000),
             Row("Toyota", "Camry", "kapot", "Aljuminij", 30050)>>),
     Table(<<Row("Toyota", "Camry", "kapot", "KARBON", 0),
             Row("Toyota", "Camry", "kapot", "stal", 20000),
             Row("Toyota", "Camry", "dver perednjaja levaja", "stal", 25000),
             Row("Toyota", "Corolla", "bamper perednij", "polimer", 12000)>>)}

PartNames == {"bamper perednij", "Dver perednjaja", "dver perednjaja levaja",
              "krylo perednee levoe", "fara perednjaja levaja", "kapot"}
CostDamageTypes == {Dent, Scratch}
CostAreas == {20, 45, 60, 250}

\* a damage dict with or without the key 'area_cm2'
DamageDicts ==
    LET base == [part : PartNames, damage_type : CostDamageTypes, severity : KnownSeverities]
    IN  base \cup {d @@ [area_cm2 |-> a] : d \in base, a \in CostAreas}

\* calculate_repair_cost(damage_analysis, brand, model)
InitCost ==
    /\ pc = "cost_call"
    /\ CAR_PRICES_DF \in PriceTables
    /\ damage_analysis \in {NoAnalysis, AnalysisWithoutDamages}
                           \cup {Analysis(ds) : ds \in SeqUpTo(DamageDicts, MaxCostDamages)}
    /\ brand = "Toyota"
    /\ model = "Camry"
    /\ car_parts = <<>>
    /\ damages_with_costs = <<>>
    /\ cost_idx = 0
    /\ cost_return = <<>>
    /\ damage_results = <<>>
    /\ part_results = <<>>
    /\ damage_boxes = <<>>
    /\ damage_labels = <<>>
    /\ part_boxes = <<>>
    /\ part_labels = <<>>
    /\ iou_threshold = DefaultThreshold
    /\ results = <<>>
    /\ damage_idx = 0
    /\ matches = <<>>
    /\ DentIdle
    /\ TotalsIdle
    /\ ExtIdle
    /\ IouIdle

NextCost == CostReturnEmpty \/ CostLookup \/ CostDamage \/ CostReturn
SpecCost == InitCost /\ [][NextCost]_vars

\* damages of an analyze-damage request: a heavy scratch on the hood, a heavy dent on
\* the bumper, a medium dent on the hood, a heavy dent on the headlight, and a light
\* scratch on a door without an area
TotalsDamageDicts ==
    {[part |-> "kapot", damage_type |-> Scratch, severity |-> Heavy, area_cm2 |-> 45],
     [part |-> "bamper perednij", damage_type |-> Dent, severity |-> Heavy, area_cm2 |-> 250],
     [part |-> "kapot", damage_type |-> Dent, severity |-> Medium, area_cm2 |-> 60],
     [part |-> "fara perednjaja levaja", damage_type |-> Dent, severity |-> Heavy,
      area_cm2 |-> 60],
     [part |-> "Dver perednjaja", damage_type |-> Scratch, severity |-> Light]}

\* POST /analyze-damage once the photo has been analysed and the table reloaded
InitTotals ==
    /\ pc = "cost_call"
    /\ CAR_PRICES_DF \in PriceTables
    /\ damage_analysis \in {AnalysisWithoutDamages}
                           \cup {Analysis(ds) : ds \in SeqUpTo(TotalsDamageDicts,
                                                               MaxTotalDamages)}
    /\ brand = "Toyota"
    /\ model = "Camry"
    /\ car_parts = <<>>
    /\ damages_with_costs = <<>>
    /\ cost_idx = 0
    /\ cost_return = <<>>
    /\ damage_results = <<>>
    /\ part_results = <<>>
    /\ damage_boxes = <<>>
    /\ damage_labels = <<>>
    /\ part_boxes = <<>>
    /\ part_labels = <<>>
    /\ iou_threshold = DefaultThreshold
    /\ results = <<>>
    /\ damage_idx = 0
    /\ matches = <<>>
    /\ DentIdle
    /\ TotalsIdle
    /\ ExtIdle
    /\ IouIdle

NextTotals ==
    \/ CostReturnEmpty
    \/ CostLookup
    \/ CostDamage
    \/ CostReturn
    \/ EndpointNoCosts
    \/ EndpointTotals
    \/ ShowResult
    \/ ShowError
SpecTotals == InitTotals /\ [][NextTotals]_vars

\* calculate_repair_cost is called once more with the arguments and the price table
\* of the call that has just returned
CostCallAgain ==
    /\ pc = "cost_returned"
    /\ ~called_again
    /\ called_again' = TRUE
    /\ first_return' = cost_return
    /\ car_parts' = <<>>
    /\ damages_with_costs' = <<>>
    /\ cost_idx' = 0
    /\ cost_return' = <<>>
    /\ pc' = "cost_call"
    /\ UNCHANGED <<CAR_PRICES_DF, damage_analysis, brand, model>>
    /\ UNCHANGED <<matchVars, dentVars, totalVars, iouVars, raceVars, emitVars, parseVars>>

\* calculate_repair_cost(damage_analysis, brand, model), twice
InitRepeat ==
    /\ pc = "cost_call"
    /\ CAR_PRICES_DF \in PriceTables
    /\ damage_analysis \in {AnalysisWithoutDamages}
                           \cup {Analysis(ds) : ds \in SeqUpTo(TotalsDamageDicts,
                                                               MaxTotalDamages)}
    /\ brand = "Toyota"
    /\ model = "Camry"
    /\ car_parts = <<>>
    /\ damages_with_costs = <<>>
    /\ cost_idx = 0
    /\ cost_return = <<>>
    /\ MatchIdle
    /\ DentIdle
    /\ TotalsIdle
    /\ IouIdle
    /\ ExtIdle

NextRepeat ==
    \/ CostReturnEmpty
    \/ CostLookup
    \/ CostDamage
    \/ CostReturn
    \/ CostCallAgain
SpecRepeat == InitRepeat /\ [][NextRepeat]_vars

(***************************************************************************)
(* app7.py: find_car_parts names the global CAR_PRICES_DF four times, and   *)
(* takes no lock and no local copy; the parsing thread's callback and the   *)
(* other requests assign the global (load_repair_prices_from_excel).        *)
(***************************************************************************)
MaxReloads == 2

\* what load_repair_prices_from_excel can leave in CAR_PRICES_DF: None (file missing,
\* columns missing, read error) or the rows of the file; the files here have two rows
\* each, so that the rows of all tables carry the same index labels 0 and 1
RaceTables ==
    {NoTable,
     Table(<<Row("Honda", "Civic", "kapot", "stal", 11100),
             Row("Toyota", "Camry", "bamper perednij", "Plastik", 15000)>>),
     Table(<<Row("Honda", "Civic", "kapot", "stal", 11100),
             Row("Toyota", "Camry", "bamper perednij", "Plastik", 17000)>>),
     Table(<<Row("Toyota", "Camry", "kapot", "aljuminij", 30000),
             Row("Toyota", "Camry", "bamper perednij", "Plastik", 15000)>>)}

\* CAR_PRICES_DF['марка'] == brand, CAR_PRICES_DF['модель'] == model, and the & of both
BrandMask(df, b) == [i \in 1..Len(df.rows) |-> df.rows[i].marka = b]
ModelMask(df, m) == [i \in 1..Len(df.rows) |-> df.rows[i].model = m]
AndMask(mask1, mask2) == [i \in 1..Len(mask1) |-> mask1[i] /\ mask2[i]]

\* frame[mask] for a boolean mask with the frame's index labels
RECURSIVE BoolIndex(_, _)
BoolIndex(rows, mask) ==
    IF rows = <<>> THEN <<>>
    ELSE (IF Head(mask) THEN <<Head(rows)>> ELSE <<>>) \o BoolIndex(Tail(rows), Tail(mask))

\* the frame find_car_parts returns when its three reads after the None check saw
\* container, bdf and mdf; subscripting None raises TypeError, which the except clause
\* turns into an empty frame
MatchingParts(container, bdf, mdf, b, m) ==
    IF container.is_none \/ bdf.is_none \/ mdf.is_none THEN <<>>
    ELSE BoolIndex(container.rows, AndMask(BrandMask(bdf, b), ModelMask(mdf, m)))

\* `if CAR_PRICES_DF is None: return pd.DataFrame()`
FindCheckNone ==
    /\ pc = "cost_call"
    /\ damage_analysis.kind = "dict"
    /\ df_checked' = CAR_PRICES_DF
    /\ IF CAR_PRICES_DF.is_none
       THEN /\ car_parts' = <<>>
            /\ pc' = "cost_loop"
       ELSE /\ car_parts' = car_parts
            /\ pc' = "find_container"
    /\ damages_with_costs' = <<>>
    /\ cost_idx' = 0
    /\ UNCHANGED <<CAR_PRICES_DF, damage_analysis, brand, model, cost_return,
                   df_container, df_brand, df_model, reloads>>
    /\ UNCHANGED <<matchVars, dentVars, totalVars, iouVars, repeatVars, emitVars, parseVars>>

\* the first CAR_PRICES_DF of `CAR_PRICES_DF[(...) & (...)]`
FindReadContainer ==
    /\ pc = "find_container"
    /\ df_container' = CAR_PRICES_DF
    /\ pc' = "find_brand"
    /\ UNCHANGED <<costVars, df_checked, df_brand, df_model, reloads>>
    /\ UNCHANGED <<matchVars, dentVars, totalVars, iouVars, repeatVars, emitVars, parseVars>>

\* `CAR_PRICES_DF['марка'] == brand`; on None the except clause returns pd.DataFrame()
FindReadBrand ==
    /\ pc = "find_brand"
    /\ df_brand' = CAR_PRICES_DF
    /\ IF CAR_PRICES_DF.is_none
       THEN /\ car_parts' = <<>>
            /\ pc' = "cost_loop"
       ELSE /\ car_parts' = car_parts
            /\ pc' = "find_model"
    /\ UNCHANGED <<CAR_PRICES_DF, damage_analysis, brand, model, damages_with_costs,
                   cost_idx, cost_return, df_checked, df_container, df_model, reloads>>
    /\ UNCHANGED <<matchVars, dentVars, totalVars, iouVars, repeatVars, emitVars, parseVars>>

\* `CAR_PRICES_DF['модель'] == model`, the &, the subscription, `return matching_parts`
FindReadModel ==
    /\ pc = "find_model"
    /\ df_model' = CAR_PRICES_DF
    /\ car_parts' = MatchingParts(df_container, df_brand, CAR_PRICES_DF, brand, model)
    /\ pc' = "cost_loop"
    /\ UNCHANGED <<CAR_PRICES_DF, damage_analysis, brand, model, damages_with_costs,
                   cost_idx, cost_return, df_checked, df_container, df_brand, reloads>>
    /\ UNCHANGED <<matchVars, dentVars, totalVars, iouVars, repeatVars, emitVars, parseVars>>

\* another thread: `CAR_PRICES_DF = load_repair_prices_from_excel()`
Reload ==
    /\ pc \in {"cost_call", "find_container", "find_brand", "find_model", "cost_loop"}
    /\ reloads < MaxReloads
    /\ CAR_PRICES_DF' \in RaceTables
    /\ reloads' = reloads + 1
    /\ UNCHANGED <<pc, damage_analysis, brand, model, car_parts, damages_with_costs,
                   cost_idx, cost_return, df_checked, df_container, df_brand, df_model>>
    /\ UNCHANGED <<matchVars, dentVars, totalVars, iouVars, repeatVars, emitVars, parseVars>>

\* calculate_repair_cost(damage_analysis, brand, model) in one request thread, with
\* reloads of the table by other threads
InitRace ==
    /\ pc = "cost_call"
    /\ CAR_PRICES_DF \in RaceTables
    /\ damage_analysis \in {AnalysisWithoutDamages}
                           \cup {Analysis(ds) : ds \in SeqUpTo(TotalsDamageDicts,
                                                               MaxCostDamages)}
    /\ brand = "Toyota"
    /\ model = "Camry"
    /\ car_parts = <<>>
    /\ damages_with_costs = <<>>
    /\ cost_idx = 0
    /\ cost_return = <<>>
    /\ MatchIdle
    /\ DentIdle
    /\ TotalsIdle
    /\ IouIdle
    /\ ExtIdle

NextRace ==
    \/ CostReturnEmpty
    \/ FindCheckNone
    \/ FindReadContainer
    \/ FindReadBrand
    \/ FindReadModel
    \/ Reload
    \/ CostDamage
    \/ CostReturn
SpecRace == InitRace /\ [][NextRace]_vars

(***************************************************************************)
(* cvmain/test.py: determine_severity and main; app7.py: the endpoint hands *)
(* what main wrote to calculate_repair_cost                                 *)
(***************************************************************************)
\* str.lower() on a damage label: a translated one or a class name
LowerDamageLabel(s) ==
    CASE s = "Vmjatina" -> "vmjatina"
      [] s = "Carapina" -> "carapina"
      [] s = "Treshhina" -> "treshhina"
      [] s = "Nadryv" -> "nadryv"
      [] OTHER -> LowerDamageClass(s)

\* damage_weights.get(damage_type.lower(), 1.0), in tenths
DamageWeight(damage_type) ==
    LET k == LowerDamageLabel(damage_type) IN
    CASE k = "scratch" -> 10
      [] k = "dent" -> 15
      [] k = "crack" -> 20
      [] k = "break" -> 25
      [] k = "chip" -> 12
      [] OTHER -> 10

\* ... with the area share left out of the score
determine_severity_IgnoringArea(damage_type, confidence, area_percentage) ==
    LET num == confidence[1] * DamageWeight(damage_type)
        den == confidence[2] * 10
    IN  IF 10 * num > 6 * den THEN Heavy
        ELSE IF 10 * num > 3 * den THEN Medium
        ELSE Light

\* severity_score = confidence * area_percentage * weight, compared with 0.6 and 0.3;
\* confidence and area_percentage are fractions
determine_severity(damage_type, confidence, area_percentage) ==
    LET num == confidence[1] * area_percentage[1] * DamageWeight(damage_type)
        den == confidence[2] * area_percentage[2] * 10
    IN  IF 10 * num > 6 * den THEN Heavy
        ELSE IF 10 * num > 3 * den THEN Medium
        ELSE Light

\* the area share main passes to determine_severity: 0.1
FixedAreaShare == <<1, 10>>

\* one element of result_data["damages"]; "location" is f"Область {damage_index + 1}",
\* kept as the number
EmittedDamage(match) ==
    [part |-> match.part_name,
     severity |-> determine_severity(match.damage_type, match.iou, FixedAreaShare),
     confidence |-> match.iou,
     location |-> match.damage_index + 1,
     type |-> match.damage_type]

\* main: `if matches is not None: result_data = {"damages": [...], ...}` and json.dump
MainEmit ==
    /\ pc = "analyzed"
    /\ result_data' = [kind |-> "result",
                       damages |-> [i \in 1..Len(matches) |-> EmittedDamage(matches[i])]]
    /\ pc' = "emitted"
    /\ UNCHANGED <<matchVars, dentVars, costVars, totalVars, iouVars, repeatVars, raceVars, parseVars>>

\* analyze_damage_with_ai returns json.load of the file main wrote, and the endpoint
\* calls calculate_repair_cost(damage_analysis, brand, model) with it
AnalyzeWithAi ==
    /\ pc = "emitted"
    /\ damage_analysis' = Analysis(result_data.damages)
    /\ pc' = "cost_call"
    /\ UNCHANGED <<CAR_PRICES_DF, brand, model, car_parts, damages_with_costs, cost_idx,
                   cost_return>>
    /\ UNCHANGED <<matchVars, dentVars, totalVars, iouVars, extVars>>

\* detections of the part model in a request
PipelinePartDetections == {<<<<0, 0, 2, 2>>, "hood">>, <<<<0, 0, 1, 2>>, "front_left_door">>}

\* one request with a photo: detection, matching, main's output, costing
InitPipeline ==
    /\ pc = "detect_damages"
    /\ damage_results \in SeqUpTo(DetBoxSet \X DamageClasses, MaxCostDamages)
    /\ part_results \in SeqUpTo(PipelinePartDetections, MaxParts)
    /\ damage_boxes = <<>>
    /\ damage_labels = <<>>
    /\ part_boxes = <<>>
    /\ part_labels = <<>>
    /\ iou_threshold = DefaultThreshold
    /\ results = <<>>
    /\ damage_idx = 0
    /\ matches = <<>>
    /\ CAR_PRICES_DF \in {Table(<<>>),
                          Table(<<Row("Toyota", "Camry", "Kapot", "stal", 30000)>>)}
    /\ damage_analysis = NoAnalysis
    /\ brand = "Toyota"
    /\ model = "Camry"
    /\ car_parts = <<>>
    /\ damages_with_costs = <<>>
    /\ cost_idx = 0
    /\ cost_return = <<>>
    /\ DentIdle
    /\ TotalsIdle
    /\ IouIdle
    /\ ExtIdle

NextPipeline ==
    \/ DetectDamages
    \/ DetectParts
    \/ NoDamages
    \/ CallFindNoParts
    \/ CallFind
    \/ ForDamage
    \/ FindReturn
    \/ AnalyzeReturn
    \/ MainEmit
    \/ AnalyzeWithAi
    \/ CostLookup
    \/ CostDamage
    \/ CostReturn
SpecPipeline == InitPipeline /\ [][NextPipeline]_vars

(***************************************************************************)
(* app7.py: analyze_damage_endpoint up to the second stage, with             *)
(* start_auto_parsing, its parsing_thread, wait_for_parsing_completion and   *)
(* parsing_complete_callback.  Flask serves each request in a thread of its  *)
(* own; the parsing thread of request r is thread[r].                        *)
(***************************************************************************)
NumRequests == 2
\* wait_for_parsing_completion's timeout (300 s), in sleep periods (2 s) of the model
TimeoutTicks == 1

Requests == 1..NumRequests

\* the cars of the requests, as (brand, model); the table has parts for the first only,
\* and only the last request may be for the second
RequestCars == {<<"Toyota", "Camry">>, <<"Lada", "Niva">>}

\* f"{brand} {model}"
TaskName(car) == IF car = <<"Toyota", "Camry">> THEN "Toyota Camry" ELSE "Lada Niva"

\* the table at server start, and the table a reload after parsing gives: the rows with
\* the price that was found
TableAtStart == Table(<<Row("Toyota", "Camry", "bamper perednij", "Plastik", 15000)>>)
TableAfterParsing == Table(<<Row("Toyota", "Camry", "bamper perednij", "Plastik", 17000)>>)

\* get_all_parts_for_model(brand, model): the parts of the car's rows
get_all_parts_for_model(df, car) ==
    {r.detal : r \in {df.rows[i] : i \in {k \in 1..Len(df.rows) :
                                             /\ df.rows[k].marka = car[1]
                                             /\ df.rows[k].model = car[2]}}}

\* `time.time() - start_time > timeout`, with elapsed = time.time() - start_time
TimedOutNonStrict(elapsed, timeout) == elapsed >= timeout

TimedOut(elapsed, timeout) == elapsed > timeout

\* a period passes: time.time() - start_time grows for every request that waits (the
\* model stops counting one period past the timeout)
PeriodPasses(req) ==
    [r \in DOMAIN req |->
        IF req[r].pc \in {"wait_test", "wait_timeout", "wait_sleep"}
        THEN [req[r] EXCEPT !.elapsed = Min(req[r].elapsed + 1, TimeoutTicks + 1)]
        ELSE req[r]]

\* the result dict the except clause passes to parsing_complete_callback
ExceptResultSuccess == [success |-> TRUE]

ExceptResult == [success |-> FALSE]

\* the result dict passed to parsing_complete_callback at the end of the try block
TryResult == [success |-> TRUE]

\* parsing_complete_callback(result): CAR_PRICES_DF afterwards
parsing_complete_callback(df, result) ==
    IF result.success THEN TableAfterParsing ELSE df

NewRequest(car) ==
    [pc |-> "request", car |-> car, elapsed |-> 0, observed |-> FALSE,
     stage2 |-> FALSE, response |-> "none"]
NewThread ==
    [pc |-> "unstarted", outcome |-> "none", callbacks |-> <<>>,
     set_false |-> FALSE, set_none |-> FALSE, set_completed |-> FALSE]

ReqFrame == UNCHANGED <<matchVars, dentVars, totalVars, iouVars, repeatVars, raceVars,
                        emitVars, damage_analysis, brand, model, car_parts,
                        damages_with_costs, cost_idx, cost_return>>

\* `if all_parts:` start_auto_parsing(...): the thread is created and started, and
\* start_auto_parsing returns; wait_for_parsing_completion: `start_time = time.time()`
ReqStartParsing(r) ==
    /\ request[r].pc = "request"
    /\ ~CAR_PRICES_DF.is_none
    /\ get_all_parts_for_model(CAR_PRICES_DF, request[r].car) # {}
    /\ thread' = [thread EXCEPT ![r].pc = "line719"]
    /\ request' = [request EXCEPT ![r].pc = "wait_test", ![r].elapsed = 0]
    /\ UNCHANGED <<pc, CAR_PRICES_DF, PARSING_STATUS>>
    /\ ReqFrame

\* `else:` no parts for the car, nothing is parsed
ReqNoParts(r) ==
    /\ request[r].pc = "request"
    /\ ~CAR_PRICES_DF.is_none
    /\ get_all_parts_for_model(CAR_PRICES_DF, request[r].car) = {}
    /\ request' = [request EXCEPT ![r].pc = "second_stage"]
    /\ UNCHANGED <<pc, CAR_PRICES_DF, PARSING_STATUS, thread>>
    /\ ReqFrame

\* `while PARSING_STATUS['in_progress']:` ... `return True`
WaitTest(r) ==
    /\ request[r].pc = "wait_test"
    /\ request' = [request EXCEPT
                      ![r].observed = PARSING_STATUS.in_progress,
                      ![r].pc = IF PARSING_STATUS.in_progress THEN "wait_timeout"
                                ELSE "returned_true"]
    /\ UNCHANGED <<pc, CAR_PRICES_DF, PARSING_STATUS, thread>>
    /\ ReqFrame

\* `if time.time() - start_time > timeout: return False`
WaitTimeout(r) ==
    /\ request[r].pc = "wait_timeout"
    /\ request' = [request EXCEPT
                      ![r].pc = IF TimedOut(request[r].elapsed, TimeoutTicks)
                                THEN "returned_false" ELSE "wait_sleep"]
    /\ UNCHANGED <<pc, CAR_PRICES_DF, PARSING_STATUS, thread>>
    /\ ReqFrame

\* `time.sleep(2)`: a sleep period passes
WaitSleep(r) ==
    /\ request[r].pc = "wait_sleep"
    /\ request' = [PeriodPasses(request) EXCEPT ![r].pc = "wait_test"]
    /\ UNCHANGED <<pc, CAR_PRICES_DF, PARSING_STATUS, thread>>
    /\ ReqFrame

\* `if not wait_for_parsing_completion(): return jsonify({"success": False, ...})`
ReqTimeoutResponse(r) ==
    /\ request[r].pc = "returned_false"
    /\ request' = [request EXCEPT ![r].pc = "done", ![r].response = "timeout_failure"]
    /\ UNCHANGED <<pc, CAR_PRICES_DF, PARSING_STATUS, thread>>
    /\ ReqFrame

\* the second stage: the photo is saved and analysed, the damages are costed, and the
\* request is answered
ReqSecondStage(r) ==
    /\ request[r].pc \in {"returned_true", "second_stage"}
    /\ request' = [request EXCEPT ![r].pc = "done", ![r].stage2 = TRUE,
                                  ![r].response = "answered"]
    /\ UNCHANGED <<pc, CAR_PRICES_DF, PARSING_STATUS, thread>>
    /\ ReqFrame

RequestStep(r) ==
    \/ ReqStartParsing(r)
    \/ ReqNoParts(r)
    \/ WaitTest(r)
    \/ WaitTimeout(r)
    \/ WaitSleep(r)
    \/ ReqTimeoutResponse(r)
    \/ ReqSecondStage(r)

\* parsing_thread: `PARSING_STATUS['in_progress'] = True`
SetInProgress(r) ==
    /\ thread[r].pc = "line719"
    /\ PARSING_STATUS' = [PARSING_STATUS EXCEPT !.in_progress = TRUE]
    /\ thread' = [thread EXCEPT ![r].pc = "line720"]
    /\ UNCHANGED <<pc, CAR_PRICES_DF, request>>
    /\ ReqFrame

\* `PARSING_STATUS['current_task'] = f"{brand} {model}"`
SetCurrentTask(r) ==
    /\ thread[r].pc = "line720"
    /\ PARSING_STATUS' = [PARSING_STATUS EXCEPT !.current_task = TaskName(request[r].car)]
    /\ thread' = [thread EXCEPT ![r].pc = "parsing"]
    /\ UNCHANGED <<pc, CAR_PRICES_DF, request>>
    /\ ReqFrame

\* the import, auto_parse_damages, update_excel_with_parsed_data and the count of the
\* found prices: they return, or one of them raises
Parse(r) ==
    /\ thread[r].pc = "parsing"
    /\ \E raised \in BOOLEAN :
          thread' = [thread EXCEPT ![r].outcome = IF raised THEN "raised" ELSE "returned",
                                   ![r].pc = IF raised THEN "line756" ELSE "line735"]
    /\ UNCHANGED <<pc, CAR_PRICES_DF, PARSING_STATUS, request>>
    /\ ReqFrame

\* `PARSING_STATUS['in_progress'] = False`, in the try block and in the except clause
ClearInProgress(r) ==
    /\ thread[r].pc \in {"line735", "line756"}
    /\ PARSING_STATUS' = [PARSING_STATUS EXCEPT !.in_progress = FALSE]
    /\ thread' = [thread EXCEPT ![r].set_false = TRUE,
                                ![r].pc = IF thread[r].pc = "line735" THEN "line736"
                                          ELSE "line757"]
    /\ UNCHANGED <<pc, CAR_PRICES_DF, request>>
    /\ ReqFrame

\* `PARSING_STATUS['last_completed'] = {...}`
SetLastCompleted(r) ==
    /\ thread[r].pc = "line736"
    /\ PARSING_STATUS' = [PARSING_STATUS EXCEPT
                             !.last_completed = [kind |-> "completed",
                                                 task |-> TaskName(request[r].car)]]
    /\ thread' = [thread EXCEPT ![r].set_completed = TRUE, ![r].pc = "line743"]
    /\ UNCHANGED <<pc, CAR_PRICES_DF, request>>
    /\ ReqFrame

\* `PARSING_STATUS['current_task'] = None`, in the try block and in the except clause
ClearCurrentTask(r) ==
    /\ thread[r].pc \in {"line743", "line757"}
    /\ PARSING_STATUS' = [PARSING_STATUS EXCEPT !.current_task = None]
    /\ thread' = [thread EXCEPT ![r].set_none = TRUE,
                                ![r].pc = IF thread[r].pc = "line743" THEN "line746"
                                          ELSE "line759"]
    /\ UNCHANGED <<pc, CAR_PRICES_DF, request>>
    /\ ReqFrame

\* `parsing_complete_callback({...})`, in the try block and in the except clause; the
\* callback catches what it raises, and the thread ends
Callback(r) ==
    /\ thread[r].pc \in {"line746", "line759"}
    /\ LET result == IF thread[r].pc = "line746" THEN TryResult ELSE ExceptResult IN
          /\ CAR_PRICES_DF' = parsing_complete_callback(CAR_PRICES_DF, result)
          /\ thread' = [thread EXCEPT
                           ![r].callbacks = Append(thread[r].callbacks, result.success),
                           ![r].pc = "finished"]
    /\ UNCHANGED <<pc, PARSING_STATUS, request>>
    /\ ReqFrame

ThreadStep(r) ==
    \/ SetInProgress(r)
    \/ SetCurrentTask(r)
    \/ Parse(r)
    \/ ClearInProgress(r)
    \/ SetLastCompleted(r)
    \/ ClearCurrentTask(r)
    \/ Callback(r)

\* time passes while the threads run
Tick ==
    /\ request' = PeriodPasses(request)
    /\ request' # request
    /\ UNCHANGED <<pc, CAR_PRICES_DF, PARSING_STATUS, thread>>
    /\ ReqFrame

\* the server with the table loaded and NumRequests requests arriving
InitParsing ==
    /\ pc = "serving"
    /\ CAR_PRICES_DF = TableAtStart
    /\ PARSING_STATUS = InitialStatus
    /\ request \in [Requests -> {NewRequest(car) : car \in RequestCars}]
    /\ \A r \in Requests : r < NumRequests => request[r].car = <<"Toyota", "Camry">>
    /\ thread = [r \in Requests |-> NewThread]
    /\ damage_analysis = NoAnalysis
    /\ brand = None
    /\ model = None
    /\ car_parts = <<>>
    /\ damages_with_costs = <<>>
    /\ cost_idx = 0
    /\ cost_return = <<>>
    /\ MatchIdle
    /\ DentIdle
    /\ TotalsIdle
    /\ IouIdle
    /\ RepeatIdle
    /\ RaceIdle
    /\ EmitIdle

NextParsing ==
    \/ \E r \in Requests : RequestStep(r)
    \/ \E r \in Requests : ThreadStep(r)
    \/ Tick
SpecParsing == InitParsing /\ [][NextParsing]_vars

\* every request thread keeps running (the interpreter switches between threads),
\* whatever the parsing threads do
SpecParsingWaitFair ==
    SpecParsing /\ \A r \in Requests : WF_vars(RequestStep(r))

\* the parsing threads on their own: what they do depends on no step of a request
\* after start_auto_parsing.  Every parsing thread keeps running, and parsing itself
\* terminates
NextThreads ==
    \/ \E r \in Requests : ReqStartParsing(r)
    \/ \E r \in Requests : ThreadStep(r)
SpecThreadsFair ==
    InitParsing /\ [][NextThreads]_vars /\ \A r \in Requests : WF_vars(ThreadStep(r))

(***************************************************************************)
(* Properties of the matcher.                                              *)
(***************************************************************************)
IouOf(i, k) == calculate_iou(damage_boxes[i], part_boxes[k])

\* the parts damage i may be assigned: IoU above the threshold
AboveThreshold(i) == {k \in 1..Len(part_boxes) : FracGt(IouOf(i, k), iou_threshold)}
\* ... and, as the code starts from best_iou = 0, above 0 as well
AboveThresholdAndZero(i) == {k \in AboveThreshold(i) : IouOf(i, k)[1] > 0}

\* the first part, in input order, whose IoU no candidate exceeds
FirstGreatest(i, Q) ==
    CHOOSE k \in Q : /\ \A j \in Q : ~FracGt(IouOf(i, j), IouOf(i, k))
                     /\ \A j \in Q : j < k => FracGt(IouOf(i, k), IouOf(i, j))

\* result i is what the matching rule prescribes for the candidate set Q
Prescribed(i, Q) ==
    IF Q = {}
    THEN /\ results[i].part_name = UnknownPart
         /\ results[i].iou = FracZero
         /\ results[i].part_index = -1
    ELSE LET k == FirstGreatest(i, Q) IN
         /\ results[i].part_index = k - 1
         /\ results[i].part_name = part_labels[k]
         /\ results[i].iou = IouOf(i, k)

\* C1 as stated: every result is the first part of strictly greatest IoU among the
\* parts whose IoU exceeds the threshold, and the unknown sentinel with iou 0 and
\* part_index -1 when no part's IoU exceeds the threshold.
C1_Original == \A i \in 1..Len(results) : Prescribed(i, AboveThreshold(i))

\* C1 amended: the candidates are the parts whose IoU exceeds the threshold and 0;
\* the result is the first candidate of greatest IoU, and the unknown sentinel with
\* iou 0 and part_index -1 when there is no candidate.
C1_BestPartAboveThresholdAndZero ==
    \A i \in 1..Len(results) : Prescribed(i, AboveThresholdAndZero(i))

\* two different parts tie for the greatest IoU above the threshold; the first is taken
C1_Witness ==
    /\ pc = "find_returned"
    /\ Len(results) >= 1
    /\ Len(part_boxes) = 2
    /\ part_boxes[1] # part_boxes[2]
    /\ FracEq(IouOf(1, 1), IouOf(1, 2))
    /\ FracGt(IouOf(1, 1), iou_threshold)
    /\ IouOf(1, 1)[1] > 0
    /\ results[1].part_index = 0

\* C2: find_damage_parts returns one result per damage, in damage order: the result
\* at position i carries damage_index i, whatever the number of parts.
C2_OneMatchPerDamage ==
    pc = "find_returned" =>
        /\ Len(results) = Len(damage_boxes)
        /\ \A i \in 1..Len(results) : results[i].damage_index = i - 1

\* two damages and no part at all: two results, both unmatched
C2_Witness ==
    /\ pc = "find_returned"
    /\ Len(damage_boxes) = 2
    /\ Len(part_boxes) = 0
    /\ Len(results) = 2
    /\ results[2].part_index = -1

\* C3: in every match of the detection pipeline, the unknown part name implies iou = 0.
C3_UnknownImpliesZeroIou ==
    pc = "analyzed" =>
        \A i \in 1..Len(matches) :
            matches[i].part_name = UnknownPart => matches[i].iou[1] = 0

\* C19: the iou of every result of find_damage_parts is a number from 0 to 1, for
\* well-formed, degenerate and malformed boxes and any threshold.
C19_IouInUnitInterval ==
    \A i \in 1..Len(results) :
        /\ results[i].iou[2] > 0
        /\ 0 <= results[i].iou[1]
        /\ results[i].iou[1] <= results[i].iou[2]

\* a damage that coincides with a part (iou 1) and a malformed damage box (iou 0)
C19_Witness ==
    /\ pc = "find_returned"
    /\ damage_boxes = <<(<<0, 0, 2, 2>>), (<<2, 2, 0, 0>>)>>
    /\ Len(part_boxes) = 2
    /\ part_boxes[1] = <<0, 0, 1, 2>>
    /\ part_boxes[2] = <<0, 0, 2, 2>>
    /\ results[1].iou = <<4, 4>>
    /\ results[2].iou = FracZero

(***************************************************************************)
(* Properties of calculate_iou.                                            *)
(***************************************************************************)
C16_Area(box) == (box[3] - box[1]) * (box[4] - box[2])
C16_Malformed(box) == box[3] < box[1] \/ box[4] < box[2]
\* the boxes share no interior point
C16_NoOverlap(a, b) ==
    \/ a[3] <= b[1] \/ b[3] <= a[1]
    \/ a[4] <= b[2] \/ b[4] <= a[2]
\* the width and the height of the common part of two overlapping boxes
C16_CommonArea(a, b) ==
    IF C16_NoOverlap(a, b) \/ C16_Malformed(a) \/ C16_Malformed(b) THEN 0
    ELSE (Min(a[3], b[3]) - Max(a[1], b[1])) * (Min(a[4], b[4]) - Max(a[2], b[2]))

\* C16: calculate_iou returns 0, without dividing by zero, when the boxes do not
\* overlap, when the union area is 0, and when a box is malformed (x2 < x1 or
\* y2 < y1) or has zero area; (0,0,10,10) and (20,20,30,30) give 0.
C16_ZeroWithoutError ==
    pc = "iou_returned" =>
        LET a == iou_args[1]
            b == iou_args[2]
        IN  /\ iou_result[2] # 0
            /\ ( \/ C16_NoOverlap(a, b)
                 \/ C16_Area(a) + C16_Area(b) - C16_CommonArea(a, b) = 0
                 \/ C16_Malformed(a) \/ C16_Malformed(b)
                 \/ C16_Area(a) = 0 \/ C16_Area(b) = 0 )
               => iou_result[1] = 0

\* the two boxes of the example
C16_Witness ==
    /\ pc = "iou_returned"
    /\ iou_args = <<(<<0, 0, 10, 10>>), (<<20, 20, 30, 30>>)>>
    /\ iou_result[1] = 0

\* C17: for a box a with x1 < x2 and y1 < y2, calculate_iou(a, a) is 1.
C17_SelfIouIsOne ==
    pc = "iou_returned" =>
        LET a == iou_args[1] IN
        (iou_args[2] = a /\ a[1] < a[3] /\ a[2] < a[4]) => FracEq(iou_result, <<1, 1>>)

\* (0,0,1,2) against itself
C17_Witness ==
    /\ pc = "iou_returned"
    /\ iou_args = <<(<<0, 0, 1, 2>>), (<<0, 0, 1, 2>>)>>
    /\ iou_result = <<2, 2>>

\* C18: for all boxes a and b, degenerate and malformed ones included,
\* calculate_iou(a, b) and calculate_iou(b, a) are the same number.
C18_Symmetric ==
    pc = "iou_returned_swapped" =>
        /\ FracEq(iou_result, iou_swapped)
        /\ iou_result[2] > 0
        /\ iou_swapped[2] > 0

\* two overlapping boxes of different sizes: 1/2 both ways
C18_Witness ==
    /\ pc = "iou_returned_swapped"
    /\ iou_args = <<(<<0, 0, 2, 2>>), (<<0, 0, 1, 2>>)>>
    /\ iou_result = <<2, 4>>
    /\ iou_swapped = <<2, 4>>

(***************************************************************************)
(* Properties of calculate_dent_repair_cost.                               *)
(***************************************************************************)
\* the rate, in the words of the claim
C4_Rate(category, severity, damage_type) ==
    IF category = Plastic
    THEN (IF damage_type = Dent THEN (IF severity = Heavy THEN 200 ELSE 100) ELSE 150)
    ELSE CASE category = Steel ->
                (CASE severity = Light -> 150 [] severity = Medium -> 250 [] OTHER -> 400)
           [] category = Aluminum ->
                (CASE severity = Light -> 200 [] severity = Medium -> 350 [] OTHER -> 550)
           [] category = Magnesium ->
                (CASE severity = Light -> 300 [] severity = Medium -> 500 [] OTHER -> 800)
           [] category = Composite ->
                (CASE severity = Light -> 400 [] severity = Medium -> 700 [] OTHER -> 1200)

\* material multiplier, in tenths
C4_MaterialTenths(category) ==
    CASE category = Steel -> 10 [] category = Aluminum -> 14 [] category = Magnesium -> 20
      [] category = Composite -> 25 [] category = Plastic -> 8

\* damage multiplier, in tenths (1.0 for a damage type the table does not list)
C4_DamageTenths(damage_type, severity) ==
    CASE damage_type = Dent ->
            (CASE severity = Light -> 3 [] severity = Medium -> 5 [] OTHER -> 8)
      [] damage_type = Scratch ->
            (CASE severity = Light -> 2 [] severity = Medium -> 4 [] OTHER -> 7)
      [] damage_type = Tear ->
            (CASE severity = Light -> 6 [] severity = Medium -> 9 [] OTHER -> 12)
      [] OTHER -> 10

\* C4: for the severities light, medium and heavy, calculate_dent_repair_cost returns
\* ceil(area * rate * material_multiplier * damage_multiplier / 100) * 100 with the
\* rate and the multipliers of the tables, for the material category it reports;
\* area 120, aluminum, heavy, dent gives 74000.
C4_DentCostFormula ==
    (pc = "dent_returned" /\ dent_args.severity \in {Light, Medium, Heavy}) =>
        LET category == dent_result[2]
            n == dent_args.damage_area
                 * C4_Rate(category, dent_args.severity, dent_args.damage_type)
                 * C4_MaterialTenths(category)
                 * C4_DamageTenths(dent_args.damage_type, dent_args.severity)
        IN  /\ dent_result[1] = CeilDiv(n, 10000) * 100
            /\ (dent_args.damage_area = 120 /\ category = Aluminum
                /\ dent_args.severity = Heavy /\ dent_args.damage_type = Dent)
               => dent_result[1] = 74000

\* scenario 2 has been computed
C4_Witness ==
    /\ pc = "dent_returned"
    /\ dent_args = [damage_area |-> 120, material |-> "Aljuminij",
                    severity |-> Heavy, damage_type |-> Dent]
    /\ dent_result = <<74000, Aluminum>>

\* C15: of two calls of calculate_dent_repair_cost with the same material, severity
\* and damage type, the one with the smaller area does not return the greater cost.
C15_MonotoneInArea ==
    pc = "dent_returned_twice" =>
        (dent_args.damage_area <= dent_args2.damage_area => dent_result[1] <= dent_result2[1])
        /\ (dent_args2.damage_area <= dent_args.damage_area
            => dent_result2[1] <= dent_result[1])

\* 45 cm2 and 50 cm2 of a medium dent on steel: 5700 and 6300
C15_Witness ==
    /\ pc = "dent_returned_twice"
    /\ dent_args = [damage_area |-> 45, material |-> "stal",
                    severity |-> Medium, damage_type |-> Dent]
    /\ dent_args2.damage_area = 50
    /\ dent_result[1] = 5700
    /\ dent_result2[1] = 6300

\* the categories whose keywords a material string contains when case is ignored
\* (aluminum; magnesium or alloy; composite or carbon; plastic or polymer)
C20_CategoriesNamed(s) ==
    CASE s = "Aljuminij" -> {Aluminum}
      [] s = "aljuminievyj splav" -> {Aluminum, Magnesium}
      [] s = "magnievyj splav" -> {Magnesium}
      [] s = "Magnij" -> {Magnesium}
      [] s = "splav s karbonom" -> {Magnesium, Composite}
      [] s = "kompozit" -> {Composite}
      [] s = "KARBON" -> {Composite}
      [] s = "Plastik" -> {Plastic}
      [] s = "polimer" -> {Plastic}
      [] s = "kompozitnyj plastik" -> {Composite, Plastic}
      [] OTHER -> {}

\* the earliest category, in the order aluminum, magnesium alloy, composite, plastic,
\* that the string names; steel when it names none
C20_Category(s) ==
    LET named == C20_CategoriesNamed(s) IN
    IF Aluminum \in named THEN Aluminum
    ELSE IF Magnesium \in named THEN Magnesium
    ELSE IF Composite \in named THEN Composite
    ELSE IF Plastic \in named THEN Plastic
    ELSE Steel

\* C20: the category calculate_dent_repair_cost classifies a material string as (and
\* returns, when it computes a cost) is, case being ignored, the earliest of aluminum,
\* magnesium alloy, composite, plastic that the string names a keyword of, and steel
\* for every other string, the empty one included.
C20_ClassifierPriority ==
    /\ \A s \in MaterialStrings : BaseMaterial(s) = C20_Category(s)
    /\ (/\ pc \in {"dent_returned", "dent_returned_twice"}
        /\ \/ dent_args.severity \in KnownSeverities
           \/ C20_Category(dent_args.material) = Plastic)
       => dent_result[2] = C20_Category(dent_args.material)

\* 'алюминиевый сплав' names aluminum and alloy: aluminum; 'КАРБОН' is composite
C20_Witness ==
    /\ pc = "dent_returned_twice"
    /\ dent_args.material = "aljuminievyj splav"
    /\ dent_result[2] = Aluminum
    /\ calculate_dent_repair_cost(50, "KARBON", Light, Dent)[2] = Composite
    /\ calculate_dent_repair_cost(50, "", Light, Dent)[2] = Steel

\* C12: calculate_dent_repair_cost never takes its error exit: for every material,
\* severity and damage-type string it returns the cost of the formula with the
\* material's category (steel when unrecognized), damage multiplier 1.0 for an
\* unrecognized damage type, and an unrecognized severity costed as medium.
C12_DefaultsNeverFail ==
    pc = "dent_returned" =>
        LET category == C20_Category(dent_args.material)
            severity == IF dent_args.severity \in {Light, Medium, Heavy}
                        THEN dent_args.severity ELSE Medium
            n == dent_args.damage_area
                 * C4_Rate(category, severity, dent_args.damage_type)
                 * C4_MaterialTenths(category)
                 * C4_DamageTenths(dent_args.damage_type, severity)
        IN  dent_result = <<CeilDiv(n, 10000) * 100, category>>

(***************************************************************************)
(* Properties of calculate_repair_cost.                                    *)
(***************************************************************************)
IsHundreds(x) == x >= 0 /\ x % 100 = 0

\* C5 as stated: in every record, repair_cost and replacement_cost are non-negative
\* multiples of 100.
C5_Original ==
    \A i \in 1..Len(damages_with_costs) :
        /\ IsHundreds(damages_with_costs[i].repair_cost)
        /\ IsHundreds(damages_with_costs[i].replacement_cost)

\* C5 amended: in every estimated record both costs are non-negative multiples of
\* 100; in a record made from a price row, repair_cost is a non-negative multiple of
\* 100 unless the cap for heavy damage on magnesium alloy or composite lowered it to
\* the replacement price.
C5_RoundedUnlessFromPrice ==
    \A i \in 1..Len(damages_with_costs) :
        LET x == damages_with_costs[i] IN
        IF x.estimated
        THEN IsHundreds(x.repair_cost) /\ IsHundreds(x.replacement_cost)
        ELSE \/ IsHundreds(x.repair_cost)
             \/ /\ x.repair_cost = x.replacement_cost
                /\ x.severity = Heavy
                /\ x.detected_material \in {Magnesium, Composite}

\* an estimated scratch whose costs 5760 and 17280 were rounded up
C5_Witness ==
    /\ pc = "cost_returned"
    /\ Len(cost_return) >= 1
    /\ cost_return[1].estimated
    /\ cost_return[1].part = "kapot"
    /\ cost_return[1].damage_type = Scratch
    /\ cost_return[1].damage_area_cm2 = 60
    /\ cost_return[1].repair_cost = 5800
    /\ cost_return[1].replacement_cost = 17300

\* C6: in every record (price-row branch and estimation branch) the recommendation is
\* "repair" exactly if repair_cost < 0.7 * replacement_cost; savings is
\* replacement_cost - repair_cost for "repair" and 0 for "replace".
C6_RecommendationLaw ==
    \A i \in 1..Len(damages_with_costs) :
        LET x == damages_with_costs[i] IN
        /\ x.recommendation \in {"remont", "zamena"}
        /\ x.recommendation = "remont" <=> 10 * x.repair_cost < 7 * x.replacement_cost
        /\ x.recommendation = "remont" => x.savings = x.replacement_cost - x.repair_cost
        /\ x.recommendation = "zamena" => x.savings = 0

\* a repair that is cheaper than the replacement, but by less than 30 %: replace
C6_Witness ==
    /\ pc = "cost_returned"
    /\ Len(cost_return) >= 1
    /\ ~cost_return[1].estimated
    /\ cost_return[1].repair_cost < cost_return[1].replacement_cost
    /\ 10 * cost_return[1].repair_cost >= 7 * cost_return[1].replacement_cost
    /\ cost_return[1].recommendation = "zamena"
    /\ cost_return[1].savings = 0

\* positions of the rows of the global table for (brand, model, part)
RowsFor(part) ==
    IF CAR_PRICES_DF.is_none THEN {}
    ELSE {k \in 1..Len(CAR_PRICES_DF.rows) :
             /\ CAR_PRICES_DF.rows[k].marka = brand
             /\ CAR_PRICES_DF.rows[k].model = model
             /\ CAR_PRICES_DF.rows[k].detal = part}

FirstRowFor(part) ==
    CAR_PRICES_DF.rows[CHOOSE k \in RowsFor(part) : \A j \in RowsFor(part) : k <= j]

\* C7: when a price row exists for (brand, model, part), replacement_cost is its price
\* unchanged (of the first such row) and estimated is false; estimated is true exactly
\* when no such row exists.
C7_PriceVerbatimOrEstimated ==
    \A i \in 1..Len(damages_with_costs) :
        LET x == damages_with_costs[i]
            part == damage_analysis.damages[i].part
        IN  IF RowsFor(part) # {}
            THEN x.replacement_cost = FirstRowFor(part).cena /\ ~x.estimated
            ELSE x.estimated

\* the headlight is priced from its row, 4321, as it stands
C7_Witness ==
    /\ pc = "cost_returned"
    /\ Len(cost_return) >= 1
    /\ cost_return[1].part = "fara perednjaja levaja"
    /\ ~cost_return[1].estimated
    /\ cost_return[1].replacement_cost = 4321

\* the typical price of the claim for a scratched part, given a repair cost
C8_ScratchEstimate(part, repair_cost) ==
    LET p == Lower(part) IN
    IF Contains(p, "bamper") THEN 15000
    ELSE IF Contains(p, "dver") THEN 25000
    ELSE IF Contains(p, "krylo") THEN 12000
    ELSE IF Contains(p, "fara") THEN 8000
    ELSE Max(3 * repair_cost, 10000)

\* C8 as stated: without a price row, replacement_cost is, rounded up to 100, the
\* typical price of the kind of part or max(3 * repair_cost, 10000) for a scratch, and
\* 2.5 * repair_cost for any other damage, repair_cost being the record's repair_cost.
C8_Original ==
    \A i \in 1..Len(damages_with_costs) :
        LET x == damages_with_costs[i] IN
        x.estimated =>
            IF x.damage_type = Scratch
            THEN x.replacement_cost = CeilHundred(C8_ScratchEstimate(x.part, x.repair_cost))
            ELSE x.replacement_cost = CeilDiv(5 * x.repair_cost, 200) * 100

\* the scratch repair cost before it is rounded: int(area * rate * multiplier)
C8_UnroundedScratchRepair(x) ==
    (x.damage_area_cm2 * ScratchRate(x.severity)
     * ScratchMaterialMultiplier(x.detected_material)) \div 10

\* C8 amended: as stated, except that for a scratch on a part that is no bumper, door,
\* fender or headlight the estimate is max(3 * r, 10000) with r the scratch repair cost
\* before it is rounded up to 100 (the record's repair_cost is r rounded up).  A
\* scratch on "dver perednjaja levaja" without a row gives 25000.
C8_EstimateFromUnroundedRepair ==
    \A i \in 1..Len(damages_with_costs) :
        LET x == damages_with_costs[i] IN
        x.estimated =>
            /\ IF x.damage_type = Scratch
               THEN /\ x.repair_cost = CeilHundred(C8_UnroundedScratchRepair(x))
                    /\ x.replacement_cost =
                          CeilHundred(C8_ScratchEstimate(x.part, C8_UnroundedScratchRepair(x)))
               ELSE x.replacement_cost = CeilDiv(5 * x.repair_cost, 200) * 100
            /\ (x.damage_type = Scratch /\ x.part = "dver perednjaja levaja")
               => x.replacement_cost = 25000

\* scenario 3: a scratched front-left door without a price row
C8_Witness ==
    /\ pc = "cost_returned"
    /\ Len(cost_return) >= 1
    /\ cost_return[1].estimated
    /\ cost_return[1].part = "dver perednjaja levaja"
    /\ cost_return[1].damage_type = Scratch
    /\ cost_return[1].replacement_cost = 25000

\* C9: heavy damage on a part whose material classifies as magnesium alloy or
\* composite and that has a price row is never quoted a repair above the replacement.
C9_HeavyRepairCapped ==
    \A i \in 1..Len(damages_with_costs) :
        LET x == damages_with_costs[i] IN
        (~x.estimated /\ x.severity = Heavy /\ x.detected_material \in {Magnesium, Composite})
            => x.repair_cost <= x.replacement_cost

\* the composite headlight: the repair, far above 4321, is capped at 4321
C9_Witness ==
    /\ pc = "cost_returned"
    /\ Len(cost_return) >= 1
    /\ ~cost_return[1].estimated
    /\ cost_return[1].severity = Heavy
    /\ cost_return[1].detected_material = Composite
    /\ cost_return[1].replacement_cost = 4321
    /\ cost_return[1].repair_cost = 4321

\* the clamp, in the words of the claim
C10_Clamped(a) == IF a < 50 THEN 50 ELSE IF a > 200 THEN 200 ELSE a

\* C10: the area reported as damage_area_cm2, which is the area the cost is computed
\* from, lies in [MIN_DAMAGE_AREA, MAX_DAMAGE_AREA]; an input below the minimum is
\* raised to it, one above the maximum lowered to it, one inside is unchanged.
C10_AreaClamped ==
    \A i \in 1..Len(damages_with_costs) :
        LET x == damages_with_costs[i]
            d == damage_analysis.damages[i]
        IN  /\ x.damage_area_cm2 >= MIN_DAMAGE_AREA
            /\ x.damage_area_cm2 <= MAX_DAMAGE_AREA
            /\ "area_cm2" \in DOMAIN d => x.damage_area_cm2 = C10_Clamped(d.area_cm2)
            /\ (~x.estimated /\ x.repair_cost # x.replacement_cost)
               => x.repair_cost = calculate_dent_repair_cost(
                                     x.damage_area_cm2, x.material, x.severity,
                                     x.damage_type)[1]

\* an area of 20 cm2 is reported, and costed, as 50 cm2
C10_Witness ==
    /\ pc = "cost_returned"
    /\ Len(cost_return) >= 1
    /\ damage_analysis.damages[1] = [part |-> "bamper perednij", damage_type |-> Dent,
                                     severity |-> Light, area_cm2 |-> 20]
    /\ CAR_PRICES_DF.is_none
    /\ cost_return[1].damage_area_cm2 = 50
    /\ cost_return[1].repair_cost = 1200

\* the inputs of scenario 1 reaching calculate_repair_cost: 45 cm2, medium, dent, on a
\* part whose material classifies as steel
C11_Scenario(i) ==
    LET d == damage_analysis.damages[i] IN
    /\ "area_cm2" \in DOMAIN d
    /\ d.area_cm2 = 45
    /\ d.severity = Medium
    /\ d.damage_type = Dent
    /\ damages_with_costs[i].detected_material = Steel

\* C11 as stated: a dent of 45 cm2 and medium severity on steel is costed, by the
\* repair-cost computation with its area clamp, with repair_cost 5700 and category
\* steel.
C11_Original ==
    \A i \in 1..Len(damages_with_costs) :
        C11_Scenario(i) => /\ damages_with_costs[i].repair_cost = 5700
                           /\ damages_with_costs[i].detected_material = Steel

\* C11 amended: calculate_dent_repair_cost, which does not clamp, returns 5700 and
\* steel for 45 cm2, steel, medium, dent; calculate_repair_cost first raises 45 cm2 to
\* MIN_DAMAGE_AREA = 50 and reports damage_area_cm2 50, repair_cost 6300, steel.
C11_ScenarioClampedTo50 ==
    /\ calculate_dent_repair_cost(45, Steel, Medium, Dent) = <<5700, Steel>>
    /\ \A i \in 1..Len(damages_with_costs) :
          C11_Scenario(i) => /\ damages_with_costs[i].damage_area_cm2 = 50
                             /\ damages_with_costs[i].repair_cost = 6300
                             /\ damages_with_costs[i].detected_material = Steel

\* scenario 1 on a steel door that has a price row
C11_Witness ==
    /\ pc = "cost_returned"
    /\ Len(cost_return) >= 1
    /\ damage_analysis.damages[1] = [part |-> "dver perednjaja levaja", damage_type |-> Dent,
                                     severity |-> Medium, area_cm2 |-> 45]
    /\ ~cost_return[1].estimated
    /\ cost_return[1].material = "stal"
    /\ cost_return[1].damage_area_cm2 = 50
    /\ cost_return[1].repair_cost = 6300

\* C13: whatever the price table (not loaded, empty, or without a row for the brand,
\* model and part), calculate_repair_cost returns one record per damage, in order, and
\* the record of every damage without a row comes from the estimation, estimated = true.
C13_MissingPriceEstimated ==
    (pc = "cost_returned" /\ damage_analysis.kind = "dict") =>
        /\ Len(cost_return) = Len(damage_analysis.damages)
        /\ \A i \in 1..Len(cost_return) :
              LET part == damage_analysis.damages[i].part IN
              /\ cost_return[i].part = part
              /\ RowsFor(part) = {} => /\ cost_return[i].estimated
                                       /\ cost_return[i].material = "ne opredelen"
                                       /\ cost_return[i].repair_cost >= 0
                                       /\ cost_return[i].replacement_cost >= 0

\* the table holds rows for the car, none of them for the damaged door
C13_Witness ==
    /\ pc = "cost_returned"
    /\ ~CAR_PRICES_DF.is_none
    /\ Len(car_parts) > 0
    /\ Len(cost_return) >= 1
    /\ RowsFor(damage_analysis.damages[1].part) = {}
    /\ cost_return[1].part = "Dver perednjaja"
    /\ cost_return[1].estimated

\* the sum of a field over the first n records of a list
RECURSIVE C14_Sum(_, _, _)
C14_Sum(damages, key, n) ==
    IF n = 0 THEN 0 ELSE C14_Sum(damages, key, n - 1) + damages[n][key]

\* C14: for a non-empty list of costed damages, total_repair_cost and
\* total_replacement_cost are the sums of the records' repair_cost and
\* replacement_cost, in the answer and on the page, and the overall recommendation is
\* "repair" exactly if the total repair cost is less than the total replacement cost.
C14_TotalsAndOverallDecision ==
    (pc = "shown" /\ Len(cost_return) > 0) =>
        LET repair == C14_Sum(cost_return, "repair_cost", Len(cost_return))
            replacement == C14_Sum(cost_return, "replacement_cost", Len(cost_return))
        IN  /\ response_data.success
            /\ response_data.total_repair_cost = repair
            /\ response_data.total_replacement_cost = replacement
            /\ page.shown = "totals"
            /\ page.totalRepairCost = repair
            /\ page.totalReplacementCost = replacement
            /\ page.finalRecommendation \in {"remont", "zamena"}
            /\ page.finalRecommendation = "remont" <=> repair < replacement

\* two damages, each with the recommendation "replace", whose total repair cost lies
\* between 0.7 of the total replacement cost and the total replacement cost: "repair"
C14_Witness ==
    /\ pc = "shown"
    /\ Len(cost_return) = 2
    /\ cost_return[1].recommendation = "zamena"
    /\ cost_return[2].recommendation = "zamena"
    /\ page.shown = "totals"
    /\ page.totalRepairCost = cost_return[1].repair_cost + cost_return[2].repair_cost
    /\ 10 * page.totalRepairCost >= 7 * page.totalReplacementCost
    /\ page.finalRecommendation = "remont"

(***************************************************************************)
(* Repeated calls, concurrent reloads, the detector's output as the cost   *)
(* engine's input, and the parsing threads.                                *)
(***************************************************************************)
\* C21: calculate_repair_cost is deterministic: two calls with the same damage
\* analysis, brand, model and price table return identical lists of records, also for
\* damages that carry no area_cm2 field.
C21_SecondCallReturnsTheSame ==
    (pc = "cost_returned" /\ called_again) => cost_return = first_return

\* C22: within one call of calculate_repair_cost the rows used for costing all come
\* from a single version of CAR_PRICES_DF, also when another thread reloads the table
\* during the call: car_parts is what find_car_parts selects from one of the tables
\* the call has read.
C22_OneSnapshot ==
    pc \in {"cost_loop", "cost_returned"} =>
        \E df \in {df_checked, df_container, df_brand, df_model} :
            car_parts = find_car_parts(df, brand, model)

\* C23: the damage type main reports for a damage is the damage type
\* calculate_repair_cost costs it with and writes into damage_type, and the area it
\* costs comes from the detector's output: the damage carries an area, and the record's
\* area is that area after clamping.
C23_TypeAndAreaFromDetector ==
    (pc = "cost_returned" /\ result_data.kind = "result") =>
        /\ Len(cost_return) = Len(result_data.damages)
        /\ \A i \in 1..Len(cost_return) :
              /\ cost_return[i].damage_type = result_data.damages[i].type
              /\ "area_cm2" \in DOMAIN result_data.damages[i]
              /\ cost_return[i].damage_area_cm2 = ClampArea(result_data.damages[i].area_cm2)

\* the damage types determine_severity has weights for, a translated label, and the
\* IoU values n/d with 0 <= n <= d
C30_DamageTypes == {"scratch", "dent", "Dent", "crack", "break", "chip", "Vmjatina", "Carapina"}
C30_Ious == {f \in (0..(MaxCoord * MaxCoord)) \X (1..(MaxCoord * MaxCoord)) : f[1] <= f[2]}

\* C30: every damage main emits has severity 'легкий': with the fixed area share 0.1,
\* determine_severity returns neither 'средний' nor 'тяжелый', whatever the damage
\* type and the IoU in [0, 1].
C30_AlwaysLight ==
    /\ \A t \in C30_DamageTypes, iou \in C30_Ious :
          determine_severity(t, iou, FixedAreaShare) = Light
    /\ result_data.kind = "result" =>
          \A i \in 1..Len(result_data.damages) : result_data.damages[i].severity = Light

\* main has emitted a dent that coincides with a part: confidence (IoU) 1
C30_Witness ==
    /\ pc = "emitted"
    /\ \E i \in 1..Len(result_data.damages) :
          /\ result_data.damages[i].type = "Vmjatina"
          /\ result_data.damages[i].part = "Kapot"
          /\ FracEq(result_data.damages[i].confidence, <<1, 1>>)
          /\ result_data.damages[i].severity = Light

\* the rate-table algorithm: area * rate * material multiplier * damage multiplier,
\* rounded up to 100, for the record's area, material category, severity and type
C24_RateTable(x) ==
    CeilDiv(x.damage_area_cm2 * C4_Rate(x.detected_material, x.severity, x.damage_type)
            * C4_MaterialTenths(x.detected_material)
            * C4_DamageTenths(x.damage_type, x.severity), 10000) * 100

\* the scratch rates of the estimation branch: 80 / 150 / 300 per cm2, times 1.0 for
\* plastic, 1.2 for steel, 1.5 for aluminum, 2.0 for composite (in tenths of a rouble)
C24_ScratchTenths(x) ==
    (CASE x.severity = Light -> 80 [] x.severity = Medium -> 150 [] OTHER -> 300)
    * (CASE x.detected_material = Steel -> 12 [] x.detected_material = Aluminum -> 15
         [] x.detected_material = Composite -> 20 [] OTHER -> 10)

\* C24 as stated: the estimation branch yields the repair_cost of the rate-table
\* algorithm for the same clamped area, material category, severity and damage type,
\* for scratches as for other damage types.
C24_Original ==
    pc = "cost_returned" =>
        \A i \in 1..Len(cost_return) :
            cost_return[i].estimated => cost_return[i].repair_cost = C24_RateTable(cost_return[i])

\* C24 amended: the estimation branch yields the rate-table repair_cost for damage
\* types other than scratch; for a scratch it yields area * scratch rate * scratch
\* material multiplier, rounded up to 100.  The price-record branch yields the
\* rate-table repair_cost, capped at the replacement price for heavy damage on
\* magnesium alloy or composite.
C24_EstimatedRepairCost ==
    pc = "cost_returned" =>
        \A i \in 1..Len(cost_return) :
            LET x == cost_return[i] IN
            IF x.estimated
            THEN IF x.damage_type = Scratch
                 THEN x.repair_cost
                      = CeilDiv(x.damage_area_cm2 * C24_ScratchTenths(x), 1000) * 100
                 ELSE x.repair_cost = C24_RateTable(x)
            ELSE IF x.severity = Heavy /\ x.detected_material \in {Magnesium, Composite}
                 THEN x.repair_cost = Min(C24_RateTable(x), x.replacement_cost)
                 ELSE x.repair_cost = C24_RateTable(x)

\* a light scratch of 60 cm2 on a hood without a price row: 60 * 80 * 1.2 = 5760,
\* reported as 5800, where the rate tables give 60 * 150 * 1.0 * 0.2 = 1800
C24_Witness ==
    /\ pc = "cost_returned"
    /\ Len(cost_return) = 1
    /\ cost_return[1].estimated
    /\ cost_return[1].part = "kapot"
    /\ cost_return[1].damage_type = Scratch
    /\ cost_return[1].severity = Light
    /\ cost_return[1].damage_area_cm2 = 60
    /\ cost_return[1].detected_material = Steel
    /\ cost_return[1].repair_cost = 5800
    /\ C24_RateTable(cost_return[1]) = 1800

\* C25: wait_for_parsing_completion, called after start_auto_parsing, returns True only
\* after the parsing thread that call started has finished: the request does not go on
\* while that thread has not yet run or is still running.
C25_ProceedsOnlyAfterThreadFinished ==
    \A r \in DOMAIN request :
        request[r].pc = "returned_true" => thread[r].pc = "finished"

\* C26: every parsing thread whose parsing terminates comes to its end, having set
\* in_progress to False and current_task to None and having called
\* parsing_complete_callback exactly once, with success = True if nothing raised and
\* False otherwise; last_completed is written only by a thread in which nothing raised.
C26_ThreadEndsWithOneCallback ==
    /\ \A r \in Requests : (thread[r].pc = "line719") ~> (thread[r].pc = "finished")
    /\ [](\A r \in Requests :
             /\ Len(thread[r].callbacks) <= 1
             /\ thread[r].pc = "finished" =>
                   /\ thread[r].set_false
                   /\ thread[r].set_none
                   /\ thread[r].callbacks = <<thread[r].outcome = "returned">>
             /\ thread[r].set_completed => thread[r].outcome = "returned"
             /\ (thread[r].pc = "finished" /\ thread[r].outcome = "returned")
                   => thread[r].set_completed)
    /\ [](PARSING_STATUS.last_completed.kind = "completed" =>
             \E r \in Requests : thread[r].set_completed /\ thread[r].outcome = "returned")

\* a thread in which parsing raised has ended: one callback, with success = False, and
\* last_completed is not its work
C26_Witness ==
    \E r \in DOMAIN thread :
        /\ thread[r].pc = "finished"
        /\ thread[r].outcome = "raised"
        /\ thread[r].callbacks = <<FALSE>>
        /\ thread[r].set_false
        /\ thread[r].set_none
        /\ ~thread[r].set_completed

\* C27: wait_for_parsing_completion always returns, whether or not parsing ends: True
\* as soon as it sees in_progress False, False once it has seen in_progress True with
\* more than the timeout elapsed.  When it returns False the request is answered with
\* the failure and the second stage (photo, analysis, costing) is not entered.
C27_WaitTerminates ==
    /\ \A r \in Requests :
          (request[r].pc = "wait_test")
              ~> (request[r].pc \in {"returned_true", "returned_false"})
    /\ [][\A r \in Requests :
             /\ (request[r].pc = "wait_test" /\ request'[r].pc # "wait_test") =>
                   (IF PARSING_STATUS.in_progress
                    THEN request'[r].pc = "wait_timeout"
                    ELSE request'[r].pc = "returned_true")
             /\ (request[r].pc = "wait_timeout" /\ request'[r].pc # "wait_timeout") =>
                   (IF request[r].elapsed > TimeoutTicks
                    THEN request'[r].pc = "returned_false"
                    ELSE request'[r].pc = "wait_sleep")
             /\ request[r].pc = "returned_false" =>
                   /\ request'[r].pc \in {"returned_false", "done"}
                   /\ request'[r].pc = "done" => request'[r].response = "timeout_failure"]_vars
    /\ [](\A r \in Requests :
             /\ request[r].pc = "returned_true" => ~request[r].observed
             /\ request[r].pc = "returned_false" => request[r].observed
             /\ request[r].response = "timeout_failure" => ~request[r].stage2)

\* a request has been answered with the timeout failure while its thread still parses
C27_Witness ==
    \E r \in DOMAIN request :
        /\ request[r].pc = "done"
        /\ request[r].response = "timeout_failure"
        /\ ~request[r].stage2
        /\ request[r].elapsed > TimeoutTicks
        /\ thread[r].pc = "parsing"

\* C28: in_progress is True in every state in which at least one parsing thread has set
\* it and has not yet finished its work: a thread that ends does not clear the flag
\* while another thread is still working.
C28_FlagCoversWorkingThreads ==
    (\E r \in DOMAIN thread : thread[r].pc \in {"line720", "parsing", "line735", "line756"})
        => PARSING_STATUS.in_progress

\* C29: for a non-empty list of costed damages with non-negative replacement costs, if
\* every damage's recommendation is "repair", the recommendation for the whole list
\* (total repair cost < total replacement cost) is "repair" as well.
C29_AllRepairGivesRepair ==
    (/\ pc = "shown"
     /\ Len(cost_return) > 0
     /\ \A i \in 1..Len(cost_return) :
           /\ cost_return[i].replacement_cost >= 0
           /\ cost_return[i].recommendation = "remont")
        => /\ page.shown = "totals"
           /\ page.finalRecommendation = "remont"

\* two damages, both with the recommendation "repair", and "repair" for the list
C29_Witness ==
    /\ pc = "shown"
    /\ Len(cost_return) = 2
    /\ cost_return[1].recommendation = "remont"
    /\ cost_return[2].recommendation = "remont"
    /\ cost_return[1].part # cost_return[2].part
    /\ page.shown = "totals"
    /\ page.totalRepairCost < page.totalReplacementCost
    /\ page.finalRecommendation = "remont"
====
